---- MODULE Spec2Model ----
(***************************************************************************)
(* Listener lifecycle of grpcsrv.Service: Start binds and launches the     *)
(* listener goroutines, Stop drains them.  One "main" thread runs          *)
(* New -> Start -> Stop; every listener goroutine, every Stop goroutine    *)
(* and every in-flight call is a concurrent process of its own.            *)
(*                                                                         *)
(* grpc.Server, http.Server, grpc.ClientConn, net.Listen and the context   *)
(* deadline are external collaborators: they are modelled by their         *)
(* documented contract (Serve / GracefulStop / Shutdown / ListenAndServe / *)
(* Close), their failures being choices of the environment.                *)
(***************************************************************************)
EXTENDS Naturals, FiniteSets, Sequences, TLC

\* Largest number of calls in flight at once on one listener.
MaxCalls == 2

\* The listener goroutines, named after the function that launches them.  Start
\* calls startGRPCServer and, with the gateway, startHTTPGateway (which calls
\* startHTTPMetricsServer); startMetricsServer and startPProfServer are called
\* by nothing, so their goroutines are never launched.
Tasks == {"grpc", "http", "httpMetrics", "metrics", "pprof"}

\* An address option is either empty (listener disabled) or set.
Addr == {"", ":port"}

VARIABLES
    endpointHTTP,       \* s.endpoint.HTTP
    httpMetricsPort,    \* s.httpMetricsPort
    metricsEndpoint,    \* s.metricsEndpoint
    pprofEndpoint,      \* s.pprofEndpoint
    pc,                 \* position of the thread that calls Start, then Stop
    startErr,           \* "none" until Start returns, then "nil" or "err"
    grpcServer,         \* s.grpcServer: "nil" or "created"
    grpcGatewayConn,    \* s.grpcGatewayConn: "nil", "open" or "closed"
    httpServer,         \* s.httpServer: "nil" or "set"
    httpMetricsServer,  \* s.httpMetricsServer: "nil" or the task whose server it holds
    pprofServer,        \* s.pprofServer: "nil" or "set"
    task,               \* state of each listener goroutine
    listener,           \* the listener of each task: "none", "bound", "failed" (bind), "broken"
    inShutdown,         \* the servers told to stop (GracefulStop / Shutdown called)
    wgCount,            \* counter of s.wg
    stopWG,             \* counter of the WaitGroup local to Stop
    gHTTP,              \* position of Stop's goroutine for the gateway
    gMetrics,           \* position of Stop's goroutine for the metrics server
    stopErr,            \* what Stop returned: "none" before, "nil" or "err"
    grpcCalls,          \* calls in flight on the primary listener
    httpCalls,          \* requests in flight on the gateway listener
    deadlineExpired,    \* the deadline of Stop's context has passed
    crashed,            \* a goroutine panicked: the process is gone
    logged,             \* the errors written to s.logger
    recoverEnabled,     \* s.recoverEnabled (WithRecover)
    pprofEnabled,       \* s.pprofEnabled
    interceptors,       \* number of interceptors the initializers' options add
    ctxModifiers,       \* s.ctxUnaryModifier / ctxStreamModifier / ctxHTTPModifier
    corsOptions,        \* s.corsOptions: "none", or what WithCORSOptions gave
    otel,               \* the process's tracer provider and propagator (otel's globals)
    withSanitizeKeys,   \* the keys New was given with WithSanitizeKeys, if any
    sanitizeKeys,       \* s.sanitizeKeys
    payload,            \* the bytes handed to the sanitizer
    passes,             \* what sanitizeBytes returned, pass after pass
    phase,              \* the call in the pipeline: "idle", "down", "up", "panic", "done"
    call,               \* the inbound call: transport, trace id, metadata, faults
    depth,              \* number of pipeline stages on the call's goroutine stack
    ctx,                \* the context handed to the next stage, as the values added to it
    hooked,             \* the calls of the context modifiers, with their arguments
    stream,             \* the wrappers put around the grpc.ServerStream so far
    xTraceID,           \* x-trace-id of the response (trailer or header)
    span,               \* the "grpc_data" span: "none", "open" or "ended"
    attrs,              \* the grpc_request and grpc_response attributes of the span
    reply,              \* the response the current stage returns, next to result
    result,             \* what the current stage returns, at the end what the caller gets
    panicking,          \* the value of the panic that is unwinding the stack
    events,             \* what has run for this call, in order
    errorLog,           \* the s.logger.Error entries written for this call
    seen,               \* what the user handler was handed
    gw,                 \* the gateway call being forwarded to the primary listener
    dialer              \* a grpcdial.Dialer, the connections it made and its caller

config == <<endpointHTTP, httpMetricsPort, metricsEndpoint, pprofEndpoint>>
handles == <<grpcServer, grpcGatewayConn, httpServer, httpMetricsServer, pprofServer>>
stopLocal == <<stopWG, gHTTP, gMetrics, stopErr>>
calls == <<grpcCalls, httpCalls>>
options == <<recoverEnabled, pprofEnabled, interceptors, ctxModifiers, corsOptions, otel,
             withSanitizeKeys, sanitizeKeys>>
sanitizer == <<payload, passes>>
pipe == <<options, sanitizer, phase, call, depth, ctx, hooked, stream, xTraceID, span, attrs,
          reply, result, panicking, events, errorLog, seen, gw, dialer>>
vars == <<config, pc, startErr, handles, task, listener, inShutdown, wgCount,
          stopLocal, calls, deadlineExpired, crashed, logged, pipe>>

-----------------------------------------------------------------------------
(* Structured payloads and the sanitizer *)

\* MaxSpanBytes: the largest body, in bytes, that is attached to a span whole.
MaxSpanBytes == 64000

\* The longest sequence, and the most members of an object, in a generated
\* payload.
MaxLen == 2

\* The number of times the sanitizer is applied to a payload in a row.
MaxPasses == 2

\* The values of the generic tree that json.Unmarshal builds: string, float64,
\* bool, nil, map[string]any and []any.  A string is its text followed by pad
\* more bytes; it holds no character that JSON writes escaped.
Str(s, pad) == [t |-> "string", v |-> [s |-> s, pad |-> pad]]

Num(n) == [t |-> "number", v |-> n]

Bool(b) == [t |-> "bool", v |-> b]

Null == [t |-> "null", v |-> 0]

Map(f) == [t |-> "map", v |-> f]

Slice(q) == [t |-> "array", v |-> q]

\* The nil map: what json.Unmarshal leaves in m when the text is null.
NilMap == [t |-> "nil", v |-> 0]

\* A JSON object as it is written: its members, each a key and a value, in the
\* order of the text.
Object(members) == [t |-> "object", v |-> members]

\* The keys of the generated payloads, in the byte order json.Marshal sorts the
\* keys of a map in.
KeyOrder == <<"Password", "items", "name", "password">>

\* The number of bytes of a natural number written in decimal.
RECURSIVE NumLen(_)
NumLen(n) == IF n < 10 THEN 1 ELSE 1 + NumLen(n \div 10)

\* The number of bytes of a JSON value as it is written.  protojson.Marshal
\* writes, or not, one space after every comma, the same way throughout one
\* build; json.Marshal writes none.
RECURSIVE JSONLen(_, _)
RECURSIVE MembersLen(_, _, _)
RECURSIVE ItemsLen(_, _, _)
JSONLen(x, space) ==
    CASE x.t = "string" -> Len(x.v.s) + x.v.pad + 2
      [] x.t = "number" -> NumLen(x.v)
      [] x.t = "bool" -> IF x.v THEN 4 ELSE 5
      [] x.t = "null" -> 4
      [] x.t = "object" -> 2 + MembersLen(x.v, 1, space)
      [] x.t = "array" -> 2 + ItemsLen(x.v, 1, space)

MembersLen(q, i, space) ==
    IF i > Len(q) THEN 0
    ELSE (IF i > 1 THEN (IF space THEN 2 ELSE 1) ELSE 0)
         + Len(q[i].key) + 3 + JSONLen(q[i].val, space)
         + MembersLen(q, i + 1, space)

ItemsLen(q, i, space) ==
    IF i > Len(q) THEN 0
    ELSE (IF i > 1 THEN (IF space THEN 2 ELSE 1) ELSE 0)
         + JSONLen(q[i], space)
         + ItemsLen(q, i + 1, space)

\* The number of commas of a JSON value as it is written.
RECURSIVE Commas(_)
RECURSIVE CommasIn(_, _)
Commas(x) ==
    CASE x.t = "object" ->
           (IF Len(x.v) > 1 THEN Len(x.v) - 1 ELSE 0)
           + CommasIn([i \in DOMAIN x.v |-> x.v[i].val], 1)
      [] x.t = "array" -> (IF Len(x.v) > 1 THEN Len(x.v) - 1 ELSE 0) + CommasIn(x.v, 1)
      [] OTHER -> 0

CommasIn(q, i) == IF i > Len(q) THEN 0 ELSE Commas(q[i]) + CommasIn(q, i + 1)

\* A byte string: the first cut bytes of the JSON text of root, written with or
\* without the space after a comma.
Text(root, space) == [root |-> root, space |-> space, cut |-> JSONLen(root, space)]

\* len(data).
TextLen(data) == data.cut

\* The bytes are a whole JSON text: a text that was cut short is none.
WellFormed(data) == data.cut = JSONLen(data.root, data.space)

\* data[:n], for n no larger than len(data).
Truncate(data, n) == [data EXCEPT !.cut = n]

\* No bytes at all.
NoBytes == [root |-> Null, space |-> FALSE, cut |-> 0]

\* json.Unmarshal into any, for a value of a well-formed text: an object
\* becomes a map, in which the last member of a key wins.
RECURSIVE Decode(_)
Decode(x) ==
    CASE x.t = "object" ->
           Map([k \in {x.v[i].key : i \in DOMAIN x.v} |->
                  LET last == CHOOSE i \in DOMAIN x.v :
                                /\ x.v[i].key = k
                                /\ \A j \in DOMAIN x.v : x.v[j].key = k => j <= i
                  IN  Decode(x.v[last].val)])
      [] x.t = "array" -> Slice([i \in DOMAIN x.v |-> Decode(x.v[i])])
      [] OTHER -> x

\* json.Unmarshal(data, &m) with m a map[string]any: an error for bytes that are
\* no JSON text and for a text that is neither an object nor null; null leaves
\* m nil.
Unmarshal(data) ==
    IF ~WellFormed(data) THEN [err |-> TRUE, m |-> NilMap]
    ELSE CASE data.root.t = "object" -> [err |-> FALSE, m |-> Decode(data.root)]
           [] data.root.t = "null" -> [err |-> FALSE, m |-> NilMap]
           [] OTHER -> [err |-> TRUE, m |-> NilMap]

\* The keys of a map in the order json.Marshal writes them.
SortedKeys(f) == SelectSeq(KeyOrder, LAMBDA k : k \in DOMAIN f)

\* json.Marshal of a value of the generic tree: the members of a map are
\* written sorted by key, a nil map as null.
RECURSIVE Encode(_)
Encode(x) ==
    CASE x.t = "map" ->
           LET ks == SortedKeys(x.v)
           IN  Object([i \in DOMAIN ks |-> [key |-> ks[i], val |-> Encode(x.v[ks[i]])]])
      [] x.t = "array" -> Slice([i \in DOMAIN x.v |-> Encode(x.v[i])])
      [] x.t = "nil" -> Null
      [] OTHER -> x

\* json.Marshal(m): the text, without any space.
Marshal(m) == Text(Encode(m), FALSE)

\* Unicode lower case of the keys and denylist entries that are used here.
ToLower(k) ==
    CASE k = "Password" -> "password"
      [] k = "Name" -> "name"
      [] k = "refreshToken" -> "refreshtoken"
      [] k = "accessToken" -> "accesstoken"
      [] k = "apiKey" -> "apikey"
      [] OTHER -> k

\* strings.EqualFold: equality under case folding.
EqualFold(a, b) == ToLower(a) = ToLower(b)

\* sanitizeJSON's string case masking the value at its own length.
redact_KeepLength(key, value) ==
    IF \E i \in DOMAIN sanitizeKeys : EqualFold(key, sanitizeKeys[i])
      THEN Str("sanitized", Len(value.v.s) + value.v.pad)
      ELSE value

\* sanitizeJSON's string case without the test of the key.
redact_AnyKey(key, value) == Str("sanitized", 0)

\* sanitizeJSON, lines 181-186: what becomes of a string under the given key.
redact(key, value) ==
    IF \E i \in DOMAIN sanitizeKeys : EqualFold(key, sanitizeKeys[i])
      THEN Str("sanitized", 0)
      ELSE value

\* sanitizeJSON replacing whatever is stored under a denylisted key.
RECURSIVE sanitizeJSON_AnyValue(_)
sanitizeJSON_AnyValue(data) ==
    Map([key \in DOMAIN data.v |->
           LET value == data.v[key] IN
           IF \E i \in DOMAIN sanitizeKeys : EqualFold(key, sanitizeKeys[i])
             THEN Str("sanitized", 0)
             ELSE CASE value.t = "map" -> sanitizeJSON_AnyValue(value)
                    [] value.t = "array" ->
                         Slice([i \in DOMAIN value.v |->
                                  IF value.v[i].t = "map"
                                    THEN sanitizeJSON_AnyValue(value.v[i])
                                    ELSE value.v[i]])
                    [] OTHER -> value])

\* sanitizeJSON: every member of the map is looked at; a map is descended
\* into, of a sequence the elements that are maps, a string goes through the
\* denylist, anything else is left as it is.
RECURSIVE sanitizeJSON(_)
sanitizeJSON(data) ==
    Map([key \in DOMAIN data.v |->
           LET value == data.v[key] IN
           CASE value.t = "map" -> sanitizeJSON(value)
             [] value.t = "array" ->
                  Slice([i \in DOMAIN value.v |->
                           IF value.v[i].t = "map"
                             THEN sanitizeJSON(value.v[i])
                             ELSE value.v[i]])
             [] value.t = "string" -> redact(key, value)
             [] OTHER -> value])

\* sanitizeBytes answering bytes that do not decode with no bytes.
sanitizeBytes_FailClosed(data) ==
    LET u == Unmarshal(data) IN
    IF u.err THEN NoBytes
    ELSE IF u.m = NilMap THEN Marshal(u.m)
    ELSE Marshal(sanitizeJSON(u.m))

\* sanitizeBytes: bytes that do not decode into a map are returned as they
\* are; the others are decoded, sanitized and encoded again.  Ranging over a
\* nil map does nothing.
sanitizeBytes(data) ==
    LET u == Unmarshal(data) IN
    IF u.err THEN data
    ELSE IF u.m = NilMap THEN Marshal(u.m)
    ELSE Marshal(sanitizeJSON(u.m))

\* The denylist New sets when none was given.
DefaultSanitizeKeys == <<"password", "token", "refreshToken", "accessToken">>

\* The keys WithSanitizeKeys is given; none when the option is not used.
SanitizeKeysOptions == {<<>>, <<"Name">>, <<"apiKey">>}

\* New, lines 115-117, merging the keys it was given with the default ones.
NewSanitizeKeys_Merged(keys) == DefaultSanitizeKeys \o keys

\* New, lines 115-117, after the options were applied: the default denylist
\* when s.sanitizeKeys is empty.
NewSanitizeKeys(keys) == IF Len(keys) = 0 THEN DefaultSanitizeKeys ELSE keys

\* The payloads the sanitizer is explored on.  Scalars.
Leaves == {Str("secret", 0), Num(7), Bool(TRUE), Null}

\* Objects of at most MaxLen members, their keys distinct, in any order.
KeySeqs(keys) ==
    {ks \in UNION {[1..n -> keys] : n \in 0..MaxLen} :
       \A i, j \in DOMAIN ks : ks[i] = ks[j] => i = j}

ObjectsOver(keys, values) ==
    UNION {{Object([i \in DOMAIN ks |-> [key |-> ks[i], val |-> vs[i]]]) :
              vs \in [DOMAIN ks -> values]} : ks \in KeySeqs(keys)}

\* Sequences of at most MaxLen elements.
SlicesOver(values) == {Slice(q) : q \in UNION {[1..n -> values] : n \in 0..MaxLen}}

\* Objects of scalars.
InnerObjects == ObjectsOver({"Password", "name"}, Leaves)

\* Sequences of strings and objects, and sequences of such sequences.
InnerSlices ==
    SlicesOver({Str("secret", 0),
                Object(<<[key |-> "Password", val |-> Str("secret", 0)]>>),
                Object(<<[key |-> "name", val |-> Str("secret", 0)]>>)})

NestedSlices == {Slice(<<x>>) : x \in {y \in InnerSlices : Len(y.v) = 1}}

\* The texts: objects, sequences and scalars, whole or cut short.
Roots ==
    ObjectsOver({"password", "items"}, Leaves \cup InnerObjects \cup InnerSlices \cup NestedSlices)
    \cup InnerSlices \cup NestedSlices \cup Leaves

WholeTexts == {Text(r, sp) : r \in Roots, sp \in {FALSE}}
                \cup {Text(r, TRUE) : r \in {x \in Roots : Commas(x) > 0}}

CutTexts ==
    {Truncate(Text(r, FALSE), 1) : r \in InnerObjects}
    \cup {Truncate(Text(r, FALSE), JSONLen(r, FALSE) - 1) : r \in InnerObjects}

Payloads == WholeTexts \cup CutTexts

-----------------------------------------------------------------------------
(* The call pipeline: data *)

\* Length in bytes of a trace id; 16 in go.opentelemetry.io/otel/trace, kept
\* short here.
TraceIDLen == 2

\* Largest number of interceptors that the initializers' options contribute.
MaxInterceptors == 1

\* Largest number of values x-trace-debug carries in the inbound metadata.
MaxValues == 2

\* The byte values a trace id is made of.
Bytes == {0, 10, 255}

\* trace.TraceID values; the one made of zero bytes is the invalid id of a
\* context that carries no span.
TraceIDs == [1..TraceIDLen -> Bytes]

\* The transports of an inbound call.
Kinds == {"unary", "stream", "http"}

\* The values an x-trace-debug entry takes.
DebugValues == {"1", "0", ""}

\* Inbound metadata as the data-capture stage reads it: whether the context
\* carries metadata at all, and the values stored under x-trace-debug.
Metadata ==
    {[present |-> FALSE, values |-> <<>>]}
    \cup {[present |-> TRUE, values |-> v] :
            v \in UNION {[1..n -> DebugValues] : n \in 0..MaxValues}}

\* The values a handler panics with: an error, a string, or any other value.
PanicValues ==
    {[type |-> "error", text |-> "boom", int |-> 0],
     [type |-> "string", text |-> "oops", int |-> 0],
     [type |-> "int", text |-> "", int |-> 42]}

\* No panic.
NoPanic == [type |-> "none", text |-> "", int |-> 0]

\* Where the processing of a call panics: nowhere, in the enrichment hook, in
\* an interceptor of an initializer, or in the user handler.
PanicSites == {"none", "hook", "interceptor", "handler"}

\* The operations of grpc.ServerStream.
StreamOps == {"Context", "SendMsg", "RecvMsg", "SetHeader", "SendHeader", "SetTrailer"}

\* A request or response value: nil, a proto message, or a value of another
\* type; whether protojson.Marshal succeeds on it, and the JSON value it is
\* written as.
NilMessage == [type |-> "nil", marshals |-> FALSE, body |-> Null]

\* The message {"name": "Bob...", "password": "secret"}, the name padded.
Body(pad) ==
    Object(<<[key |-> "name", val |-> Str("Bob", pad)],
             [key |-> "password", val |-> Str("secret", 0)]>>)

\* The padding with which Body is written, without spaces, in MaxSpanBytes
\* bytes.
FullPad == MaxSpanBytes - JSONLen(Body(0), FALSE)

\* A short message.
PlainMessage == [type |-> "proto", marshals |-> TRUE, body |-> Body(0)]

\* The messages of the calls whose capture is explored: a value that is no
\* proto message, a message that does not serialize, and messages written in
\* a few bytes, in about MaxSpanBytes bytes, and in many more.
Messages ==
    {[type |-> "other", marshals |-> FALSE, body |-> Null],
     [type |-> "proto", marshals |-> FALSE, body |-> Null]}
    \cup {[type |-> "proto", marshals |-> TRUE, body |-> Body(pad)] :
            pad \in {0, FullPad - 2, FullPad - 1, FullPad, FullPad + 1, FullPad + 6000}}

\* A network address is the sequence of its characters.  The hosts and ports
\* peers are made of.
Hosts == {<<"1", ".", "2">>, <<":", ":", "1">>, <<"h">>, <<>>}

Ports == {<<"8", "0">>, <<>>}

\* net.JoinHostPort: host:port, the host in brackets when it holds a colon.
JoinHostPort(host, port) ==
    IF \E i \in DOMAIN host : host[i] = ":"
      THEN <<"[">> \o host \o <<"]", ":">> \o port
      ELSE host \o <<":">> \o port

\* The address of the peer: none in the context, one of a TCP connection, or
\* one that has no host:port form (an in-memory or a unix-socket listener, an
\* IPv6 address without its brackets).
NoPeer == [present |-> FALSE, addr |-> <<>>]

TCPPeers == {[present |-> TRUE, addr |-> JoinHostPort(h, p)] : h \in Hosts, p \in Ports}

OddPeers ==
    {[present |-> TRUE, addr |-> a] :
       a \in {<<>>, <<"p", "i", "p", "e">>, <<":", ":", "1", ":", "8", "0">>,
              <<"[", "h", ":", "8", "0">>, <<"[", "h", "]">>, <<"[", "h", "]", "8", ":", "0">>,
              <<"[", "h", "]", ":", "8", ":", "0">>, <<"h", "[", ":", "8", "0">>,
              <<"h", "]", ":", "8", "0">>}}

Peers == {NoPeer} \cup TCPPeers \cup OddPeers

\* The peer of the calls whose address no claim is about.
PlainPeer == [present |-> TRUE, addr |-> JoinHostPort(<<"1", ".", "2">>, <<"8", "0">>)]

\* s.corsOptions: none, the options of WithCORSOptions, or those options with
\* OptionsPassthrough set.
CORSSettings == {"none", "cors", "passthrough"}

\* The calls that satisfy what the fields mean together.  preflight: the
\* request is a CORS preflight, an OPTIONS request that carries
\* Access-Control-Request-Method; only a gateway request can be one.
Consistent(c) ==
    /\ (c.panicAt = "none") = (c.panic = NoPanic)
    /\ c.panicAt # "none" => ~c.handlerErr
    /\ c.kind # "unary" => ~c.md.present
    /\ c.preflight => c.kind = "http"

\* The inbound calls, on every transport, with short messages.
Calls ==
    {c \in [kind : Kinds, traceID : TraceIDs, md : Metadata, panicAt : PanicSites,
            panic : PanicValues \cup {NoPanic}, handlerErr : BOOLEAN,
            req : {PlainMessage}, resp : {PlainMessage}, space : {FALSE},
            peer : {PlainPeer}, preflight : BOOLEAN] :
        Consistent(c)}

\* The calls whose enrichment is explored: on every transport, inside a trace
\* and outside one, from every peer, with a hook that returns and one that
\* panics.
HookedCalls ==
    {c \in [kind : Kinds,
            traceID : {[i \in 1..TraceIDLen |-> 0], [i \in 1..TraceIDLen |-> 10]},
            md : {[present |-> FALSE, values |-> <<>>]},
            panicAt : {"none", "hook"},
            panic : {NoPanic, [type |-> "error", text |-> "boom", int |-> 0]},
            handlerErr : {FALSE},
            req : {PlainMessage}, resp : {PlainMessage}, space : {FALSE},
            peer : Peers, preflight : BOOLEAN] :
        Consistent(c)}

\* The unary calls whose capture is explored: with and without the debug flag,
\* with messages of every kind.
CapturedCalls ==
    {c \in [kind : {"unary"}, traceID : {[i \in 1..TraceIDLen |-> 10]},
            md : {[present |-> FALSE, values |-> <<>>],
                  [present |-> TRUE, values |-> <<"1">>]},
            panicAt : {"none", "handler"},
            panic : {NoPanic, [type |-> "error", text |-> "boom", int |-> 0]},
            handlerErr : BOOLEAN,
            req : Messages, resp : Messages, space : BOOLEAN, peer : {PlainPeer},
            preflight : {FALSE}] :
        Consistent(c)}

\* The call record while no call is being processed.
NoCall ==
    [kind |-> "unary", traceID |-> [i \in 1..TraceIDLen |-> 0],
     md |-> [present |-> FALSE, values |-> <<>>], panicAt |-> "none",
     panic |-> NoPanic, handlerErr |-> FALSE,
     req |-> NilMessage, resp |-> NilMessage, space |-> FALSE, peer |-> NoPeer,
     preflight |-> FALSE]

\* The nil error.
Nil == [kind |-> "nil", conn |-> 0, errs |-> <<>>]

\* The targets a dialer is asked to connect to.
Targets == {"a:1", "b:1"}

\* The most connections made through one dialer.
MaxDials == 3

\* A span context: trace id, span id (one byte here) and the sampled flag.
\* The zero one is the span context of a context without a span.
NoSpanContext == [traceID |-> [i \in 1..TraceIDLen |-> 0], spanID |-> 0, sampled |-> FALSE]

\* The otel globals before the process sets any, and as a process that
\* exports traces sets them.
DefaultOtel == [provider |-> "noop", propagator |-> "none"]

OtelSettings == [provider : {"noop", "sdk"}, propagator : {"none", "tracecontext"}]

\* No gateway call is being forwarded.
NoGatewayCall ==
    [step |-> "idle", path |-> "", traceparent |-> <<>>,
     httpCtx |-> NoSpanContext, header |-> "unset",
     annotated |-> <<>>, wire |-> <<>>,
     grpcCtx |-> NoSpanContext, trailer |-> "unset"]

\* A span without the grpc_request and grpc_response attributes.
NoAttrs == [grpc_request |-> <<>>, grpc_response |-> <<>>]

\* Nothing returned yet.
NoResult == [outcome |-> "none", code |-> "", message |-> ""]

\* What the user handler was handed, before it runs.
NotSeen == [ctx |-> <<>>, ops |-> [op \in StreamOps |-> "none"]]

\* grpcdial.New: a dialer with an empty map of connections.  conns lists the
\* connections grpc.NewClient has made, in order; connections maps a target to
\* the position of its connection there, 0 for a target that is no key.
NewDialer ==
    [connections |-> [t \in Targets |-> 0], conns |-> <<>>, pc |-> "running",
     stopErr |-> Nil]

\* No call is in the pipeline, none in the bridge, and no connection was
\* dialled.
Idle ==
    /\ phase = "idle"
    /\ call = NoCall
    /\ depth = 0
    /\ ctx = <<>>
    /\ hooked = <<>>
    /\ stream = <<>>
    /\ xTraceID = "unset"
    /\ span = "none"
    /\ attrs = NoAttrs
    /\ reply = NilMessage
    /\ result = NoResult
    /\ panicking = NoPanic
    /\ events = <<>>
    /\ errorLog = <<>>
    /\ seen = NotSeen
    /\ gw = NoGatewayCall
    /\ dialer = NewDialer

\* Nothing was started yet and no call is in the pipeline; the pipeline options
\* are the zero values New leaves them at.
NotStarted ==
    /\ pc = "Start"
    /\ startErr = "none"
    /\ grpcServer = "nil"
    /\ grpcGatewayConn = "nil"
    /\ httpServer = "nil"
    /\ httpMetricsServer = "nil"
    /\ pprofServer = "nil"
    /\ task = [t \in Tasks |-> "none"]
    /\ listener = [t \in Tasks |-> "none"]
    /\ inShutdown = {}
    /\ wgCount = 0
    /\ stopWG = 0
    /\ gHTTP = "none"
    /\ gMetrics = "none"
    /\ stopErr = "none"
    /\ grpcCalls = 0
    /\ httpCalls = 0
    /\ deadlineExpired = FALSE
    /\ crashed = FALSE
    /\ logged = {}
    /\ recoverEnabled = FALSE
    /\ pprofEnabled = FALSE
    /\ interceptors = 0
    /\ ctxModifiers = "identity"
    /\ corsOptions = "none"
    /\ otel = DefaultOtel
    /\ Idle

\* New: the state after construction.  The handles are nil, nothing runs.
\* s.httpMetricsPort (read by startHTTPMetricsServer, inside the gateway) is
\* set by New and by no option; s.metricsEndpoint and s.pprofEndpoint are what
\* WithMetrics and WithPprof gave, if anything.
\* The denylist is the one WithSanitizeKeys gave, or the default one.
Init ==
    /\ endpointHTTP \in Addr
    /\ httpMetricsPort = ":port"
    /\ metricsEndpoint \in Addr
    /\ pprofEndpoint \in Addr
    /\ withSanitizeKeys \in SanitizeKeysOptions
    /\ sanitizeKeys = NewSanitizeKeys(withSanitizeKeys)
    /\ payload = NoBytes
    /\ passes = <<>>
    /\ NotStarted

\* Start returns err to its caller.
ReturnStartErr ==
    /\ pc' = "started"
    /\ startErr' = "err"

\* Start goes on to its step next; reaching "started" this way, it returns nil.
Proceed(next) ==
    /\ pc' = next
    /\ startErr' = IF next = "started" THEN "nil" ELSE startErr

\* s.wg.Add(1); go func() {...}() for listener task t.
Launch(t) ==
    /\ wgCount' = wgCount + 1
    /\ task' = [task EXCEPT ![t] = "launched"]

\* A listener task that returns without s.wg.Done().
Exit_NoDone(t) ==
    /\ wgCount' = wgCount
    /\ task' = [task EXCEPT ![t] = "exited"]

\* defer s.wg.Done() on a normal return of listener task t.
Exit(t) ==
    /\ wgCount' = wgCount - 1
    /\ task' = [task EXCEPT ![t] = "exited"]

\* panic(...) inside listener task t: the deferred s.wg.Done() runs while the
\* goroutine unwinds.  The runtime ends the process afterwards, in a step of
\* its own: the other goroutines run on until then.
Panic(t) ==
    /\ wgCount' = wgCount - 1
    /\ task' = [task EXCEPT ![t] = "panicked"]
    /\ UNCHANGED crashed

-----------------------------------------------------------------------------
(* Start *)

\* Start calling startHTTPGateway ahead of startGRPCServer.
prepare_GatewayFirst ==
    /\ pc = "Start" /\ ~crashed
    /\ grpcServer' = "created"
    /\ pc' = IF endpointHTTP # "" THEN "startHTTPGateway" ELSE "startGRPCServer"
    /\ UNCHANGED <<pipe, config, startErr, grpcGatewayConn, httpServer, httpMetricsServer,
                   pprofServer, task, listener, inShutdown, wgCount, stopLocal, calls,
                   deadlineExpired, crashed, logged>>

\* Start, up to the call of startGRPCServer: prepare builds s.grpcServer.
prepare ==
    /\ pc = "Start" /\ ~crashed
    /\ grpcServer' = "created"
    /\ pc' = "startGRPCServer"
    /\ UNCHANGED <<pipe, config, startErr, grpcGatewayConn, httpServer, httpMetricsServer,
                   pprofServer, task, listener, inShutdown, wgCount, stopLocal, calls,
                   deadlineExpired, crashed, logged>>

\* Where Start goes once startGRPCServer returned nil: the gateway if
\* httpRequired (endpoint.HTTP is not empty), otherwise to its return.
AfterGRPCServer ==
    IF endpointHTTP # "" THEN "startHTTPGateway" ELSE "started"

\* startGRPCServer with s.wg.Add(1) moved ahead of net.Listen: a failed bind
\* leaves the task registered.
startGRPCServer_AddBeforeListen ==
    /\ pc = "startGRPCServer" /\ ~crashed
    /\ \E listenOK \in BOOLEAN :
         IF listenOK
           THEN /\ listener' = [listener EXCEPT !["grpc"] = "bound"]
                /\ Launch("grpc")
                /\ Proceed(AfterGRPCServer)
           ELSE /\ listener' = [listener EXCEPT !["grpc"] = "failed"]
                /\ ReturnStartErr
                /\ wgCount' = wgCount + 1
                /\ UNCHANGED task
    /\ UNCHANGED <<pipe, config, handles, inShutdown, stopLocal, calls, deadlineExpired,
                   crashed, logged>>

\* startGRPCServer: net.Listen, then s.wg.Add(1) and the goroutine that serves.
startGRPCServer ==
    /\ pc = "startGRPCServer" /\ ~crashed
    /\ \E listenOK \in BOOLEAN :
         IF listenOK
           THEN /\ listener' = [listener EXCEPT !["grpc"] = "bound"]
                /\ Launch("grpc")
                /\ Proceed(AfterGRPCServer)
           ELSE /\ listener' = [listener EXCEPT !["grpc"] = "failed"]
                /\ ReturnStartErr
                /\ UNCHANGED <<task, wgCount>>
    /\ UNCHANGED <<pipe, config, handles, inShutdown, stopLocal, calls, deadlineExpired,
                   crashed, logged>>

\* startHTTPGateway, lines 50-73: getJSONMarshallers, then grpc.NewClient whose
\* result is stored in s.grpcGatewayConn.
gatewayNewClient ==
    /\ pc = "startHTTPGateway" /\ ~crashed
    /\ \E r \in {"ok", "marshallers", "client"} :
         IF r = "ok"
           THEN /\ grpcGatewayConn' = "open"
                /\ pc' = "gatewayRegister"
                /\ UNCHANGED startErr
           ELSE /\ ReturnStartErr
                /\ UNCHANGED grpcGatewayConn
    /\ UNCHANGED <<pipe, config, grpcServer, httpServer, httpMetricsServer, pprofServer,
                   task, listener, inShutdown, wgCount, stopLocal, calls,
                   deadlineExpired, crashed, logged>>

\* startHTTPGateway, lines 75-112: RegisterHTTPHandler of each initializer,
\* registerHealthCheckEndpoints, registerHTTPEndpoints; each may return an error.
gatewayRegister ==
    /\ pc = "gatewayRegister" /\ ~crashed
    /\ \E ok \in BOOLEAN :
         IF ok THEN pc' = "startHTTPMetricsServer" /\ UNCHANGED startErr
               ELSE ReturnStartErr
    /\ UNCHANGED <<pipe, config, handles, task, listener, inShutdown, wgCount, stopLocal,
                   calls, deadlineExpired, crashed, logged>>

\* startHTTPMetricsServer: the handle is set and the goroutine launched; the
\* bind happens inside the goroutine (ListenAndServe).
startHTTPMetricsServer ==
    /\ pc = "startHTTPMetricsServer" /\ ~crashed
    /\ IF httpMetricsPort # ""
         THEN /\ httpMetricsServer' = "httpMetrics"
              /\ Launch("httpMetrics")
         ELSE UNCHANGED <<httpMetricsServer, task, wgCount>>
    /\ pc' = "gatewayServe"
    /\ UNCHANGED <<pipe, config, startErr, grpcServer, grpcGatewayConn, httpServer,
                   pprofServer, listener, inShutdown, stopLocal, calls,
                   deadlineExpired, crashed, logged>>

\* startHTTPGateway, lines 125-140: s.httpServer is set, s.wg.Add(1), and the
\* goroutine that runs ListenAndServe is started.
gatewayServe ==
    /\ pc = "gatewayServe" /\ ~crashed
    /\ httpServer' = "set"
    /\ Launch("http")
    /\ Proceed("started")
    /\ UNCHANGED <<pipe, config, grpcServer, grpcGatewayConn, httpMetricsServer,
                   pprofServer, listener, inShutdown, stopLocal, calls,
                   deadlineExpired, crashed, logged>>

-----------------------------------------------------------------------------
(* The listener goroutines *)

\* The tasks whose goroutine binds the address itself (ListenAndServe); the
\* others are handed a listener that Start has already bound.
BindsInTask(t) == t \in {"http", "httpMetrics"}

\* What a goroutine does when its serve call returns an unexpected error:
\* TRUE when it panics, FALSE when it logs the error and returns.
PanicsOnServeError(t) == t \in {"grpc", "http", "httpMetrics"}

\* The serve call of task t returned an unexpected error.
OnServeError(t) ==
    IF PanicsOnServeError(t)
      THEN /\ Panic(t)
           /\ UNCHANGED logged
      ELSE /\ Exit(t)
           /\ logged' = logged \cup {<<t, "server error">>}
           /\ UNCHANGED crashed

\* The goroutine of task t reaches its serve call.
\*   grpc.Server.Serve after GracefulStop returns ErrServerStopped.
\*   http.Server.Serve / ListenAndServe after Shutdown return ErrServerClosed,
\*   which the goroutines take as a normal end.
\*   ListenAndServe binds the address first, and returns the bind error.
Serve(t) ==
    /\ task[t] = "launched" /\ ~crashed
    /\ IF t \in inShutdown
         THEN /\ IF t = "grpc"
                   THEN OnServeError(t)
                   ELSE Exit(t) /\ UNCHANGED <<crashed, logged>>
              /\ UNCHANGED listener
         ELSE IF BindsInTask(t)
           THEN \E listenOK \in BOOLEAN :
                  IF listenOK
                    THEN /\ listener' = [listener EXCEPT ![t] = "bound"]
                         /\ task' = [task EXCEPT ![t] = "serving"]
                         /\ UNCHANGED <<wgCount, crashed, logged>>
                    ELSE /\ listener' = [listener EXCEPT ![t] = "failed"]
                         /\ OnServeError(t)
           ELSE /\ task' = [task EXCEPT ![t] = "serving"]
                /\ UNCHANGED <<listener, wgCount, crashed, logged>>
    /\ UNCHANGED <<pipe, config, pc, startErr, handles, inShutdown, stopLocal, calls,
                   deadlineExpired>>

\* The serve call of task t returns because its server was told to stop
\* (nil from grpc.Server.Serve, ErrServerClosed from http.Server).
ServeStopped(t) ==
    /\ task[t] = "serving" /\ ~crashed
    /\ t \in inShutdown
    /\ Exit(t)
    /\ UNCHANGED <<pipe, config, pc, startErr, handles, listener, inShutdown, stopLocal,
                   calls, deadlineExpired, crashed, logged>>

\* A listener-level fault: the listener of task t breaks and the serve call
\* returns an error although nobody asked the server to stop.
ServeFault(t) ==
    /\ task[t] = "serving" /\ ~crashed
    /\ t \notin inShutdown
    /\ listener' = [listener EXCEPT ![t] = "broken"]
    /\ OnServeError(t)
    /\ UNCHANGED <<pipe, config, pc, startErr, handles, inShutdown, stopLocal,
                   calls, deadlineExpired>>

\* The runtime ends the process once the deferred calls of a panicking
\* listener task have run.
PanicEndsProcess ==
    /\ ~crashed
    /\ \E t \in Tasks : task[t] = "panicked"
    /\ crashed' = TRUE
    /\ UNCHANGED <<pipe, config, pc, startErr, handles, task, listener, inShutdown, wgCount,
                   stopLocal, calls, deadlineExpired, logged>>

-----------------------------------------------------------------------------
(* Calls in flight *)

\* The primary listener accepts a call: only while serving and not draining.
GrpcCallBegin ==
    /\ ~crashed
    /\ task["grpc"] = "serving" /\ "grpc" \notin inShutdown
    /\ grpcCalls < MaxCalls
    /\ grpcCalls' = grpcCalls + 1
    /\ UNCHANGED <<pipe, config, pc, startErr, handles, task, listener, inShutdown, wgCount,
                   stopLocal, httpCalls, deadlineExpired, crashed, logged>>

\* A call on the primary listener completes.
GrpcCallEnd ==
    /\ ~crashed
    /\ grpcCalls > 0
    /\ grpcCalls' = grpcCalls - 1
    /\ UNCHANGED <<pipe, config, pc, startErr, handles, task, listener, inShutdown, wgCount,
                   stopLocal, httpCalls, deadlineExpired, crashed, logged>>

\* The gateway listener accepts a request: only while serving and not shut down.
HttpCallBegin ==
    /\ ~crashed
    /\ task["http"] = "serving" /\ "http" \notin inShutdown
    /\ httpCalls < MaxCalls
    /\ httpCalls' = httpCalls + 1
    /\ UNCHANGED <<pipe, config, pc, startErr, handles, task, listener, inShutdown, wgCount,
                   stopLocal, grpcCalls, deadlineExpired, crashed, logged>>

\* A request on the gateway listener completes.
HttpCallEnd ==
    /\ ~crashed
    /\ httpCalls > 0
    /\ httpCalls' = httpCalls - 1
    /\ UNCHANGED <<pipe, config, pc, startErr, handles, task, listener, inShutdown, wgCount,
                   stopLocal, grpcCalls, deadlineExpired, crashed, logged>>

-----------------------------------------------------------------------------
(* Stop *)

\* The positions of the main thread inside Stop.
StopPcs == {"Stop.wait", "GracefulStop", "GracefulStop.wait", "Stop.wgWait"}

\* Stop is entered after Start has returned.  It starts one goroutine for the
\* gateway if s.httpServer is set and one for the metrics server if
\* s.httpMetricsServer is set, each registered in the local WaitGroup.
Stop ==
    /\ pc = "started" /\ ~crashed
    /\ gHTTP' = IF httpServer # "nil" THEN "Shutdown" ELSE "none"
    /\ gMetrics' = IF httpMetricsServer # "nil" THEN "Shutdown" ELSE "none"
    /\ stopWG' = (IF httpServer # "nil" THEN 1 ELSE 0)
                 + (IF httpMetricsServer # "nil" THEN 1 ELSE 0)
    /\ pc' = "Stop.wait"
    /\ UNCHANGED <<stopErr, pipe, config, startErr, handles, task, listener, inShutdown, wgCount,
                   calls, deadlineExpired, crashed, logged>>

\* The deadline carried by Stop's context passes.
DeadlineExpire ==
    /\ pc \in StopPcs /\ ~crashed
    /\ ~deadlineExpired
    /\ deadlineExpired' = TRUE
    /\ UNCHANGED <<pipe, config, pc, startErr, handles, task, listener, inShutdown, wgCount,
                   stopLocal, calls, crashed>>
    /\ UNCHANGED logged

\* Gateway goroutine: s.httpServer.Shutdown(ctx) is entered; the server stops
\* accepting and its listeners are closed.
gHTTPShutdown ==
    /\ gHTTP = "Shutdown" /\ ~crashed
    /\ inShutdown' = inShutdown \cup {"http"}
    /\ gHTTP' = "Shutdown.wait"
    /\ UNCHANGED <<stopErr, pipe, config, pc, startErr, handles, task, listener, wgCount, stopWG,
                   gMetrics, calls, deadlineExpired, crashed, logged>>

\* http.Server.Shutdown(ctx) waits for the requests in flight; it returns once
\* there are none (with the error of closing the listeners, if any) or once
\* ctx is done (with ctx.Err()).
ShutdownReturns(inFlight, err) ==
    IF inFlight = 0 THEN TRUE ELSE deadlineExpired /\ err

\* Gateway goroutine: Shutdown returns, a failure is logged, and the goroutine
\* goes on to close the connection.
gHTTPShutdownReturn ==
    /\ gHTTP = "Shutdown.wait" /\ ~crashed
    /\ \E err \in BOOLEAN :
         /\ ShutdownReturns(httpCalls, err)
         /\ logged' = IF err THEN logged \cup {<<"http", "failed to stop">>} ELSE logged
    /\ gHTTP' = "Close"
    /\ UNCHANGED <<stopErr, pipe, config, pc, startErr, handles, task, listener, inShutdown, wgCount,
                   stopWG, gMetrics, calls, deadlineExpired, crashed>>

\* Gateway goroutine: s.grpcGatewayConn.Close(), a failure is logged, and the
\* deferred wg.Done() runs.
gHTTPClose ==
    /\ gHTTP = "Close" /\ ~crashed
    /\ grpcGatewayConn' = "closed"
    /\ \E err \in BOOLEAN :
         logged' = IF err THEN logged \cup {<<"conn", "failed to close">>} ELSE logged
    /\ gHTTP' = "done"
    /\ stopWG' = stopWG - 1
    /\ UNCHANGED <<stopErr, pipe, config, pc, startErr, grpcServer, httpServer, httpMetricsServer,
                   pprofServer, task, listener, inShutdown, wgCount, gMetrics, calls,
                   deadlineExpired, crashed>>

\* Metrics goroutine: s.httpMetricsServer.Shutdown(ctx) is entered, on the
\* server the handle holds.
gMetricsShutdown ==
    /\ gMetrics = "Shutdown" /\ ~crashed
    /\ inShutdown' = inShutdown \cup {httpMetricsServer}
    /\ gMetrics' = "Shutdown.wait"
    /\ UNCHANGED <<stopErr, pipe, config, pc, startErr, handles, task, listener, wgCount, stopWG,
                   gHTTP, calls, deadlineExpired, crashed, logged>>

\* Metrics goroutine: Shutdown returns (no scrape is modelled in flight), a
\* failure is logged, and the deferred wg.Done() runs.
gMetricsShutdownReturn ==
    /\ gMetrics = "Shutdown.wait" /\ ~crashed
    /\ \E err \in BOOLEAN :
         /\ ShutdownReturns(0, err)
         /\ logged' = IF err THEN logged \cup {<<"metrics", "failed to stop">>} ELSE logged
    /\ gMetrics' = "done"
    /\ stopWG' = stopWG - 1
    /\ UNCHANGED <<stopErr, pipe, config, pc, startErr, handles, task, listener, inShutdown, wgCount,
                   gHTTP, calls, deadlineExpired, crashed>>

\* The drain steps of the two goroutines that have failed so far.
DrainFailures == {e \in logged : e[2] \in {"failed to stop", "failed to close"}}

\* StopWait giving up when a drain step has failed: Stop returns at once.
StopWait_ReturnOnFailure ==
    /\ pc = "Stop.wait" /\ ~crashed
    /\ stopWG = 0
    /\ pc' = IF DrainFailures # {} THEN "stopped" ELSE "GracefulStop"
    /\ stopErr' = IF DrainFailures # {} THEN "err" ELSE stopErr
    /\ UNCHANGED <<pipe, config, startErr, handles, task, listener, inShutdown, wgCount,
                   stopWG, gHTTP, gMetrics, calls, deadlineExpired, crashed, logged>>

\* StopWait without the wg.Wait(): Stop goes on while the goroutines still run.
StopWait_NoWait ==
    /\ pc = "Stop.wait" /\ ~crashed
    /\ pc' = "GracefulStop"
    /\ UNCHANGED <<pipe, config, startErr, handles, task, listener, inShutdown, wgCount,
                   stopLocal, calls, deadlineExpired, crashed, logged>>

\* Stop, line 192: wg.Wait() returns when both goroutines are done; whatever
\* they logged, Stop goes on to drain the primary listener.
StopWait ==
    /\ pc = "Stop.wait" /\ ~crashed
    /\ stopWG = 0
    /\ pc' = "GracefulStop"
    /\ UNCHANGED <<pipe, config, startErr, handles, task, listener, inShutdown, wgCount,
                   stopLocal, calls, deadlineExpired, crashed, logged>>

\* Stop, line 195: s.grpcServer.GracefulStop() is entered: the primary listener
\* stops accepting calls.
GracefulStop ==
    /\ pc = "GracefulStop" /\ ~crashed
    /\ inShutdown' = inShutdown \cup {"grpc"}
    /\ pc' = "GracefulStop.wait"
    /\ UNCHANGED <<pipe, config, startErr, handles, task, listener, wgCount, stopLocal,
                   calls, deadlineExpired, crashed, logged>>

\* The drain of the primary listener returning at once (a hard stop handed to
\* a goroutine), the calls in flight left running.
GracefulStopReturn_NoDrain ==
    /\ pc = "GracefulStop.wait" /\ ~crashed
    /\ pc' = "Stop.wgWait"
    /\ UNCHANGED <<pipe, config, startErr, handles, task, listener, inShutdown, wgCount,
                   stopLocal, calls, deadlineExpired, crashed, logged>>

\* GracefulStop blocks until every call in flight has finished; it takes no
\* context.
GracefulStopReturn ==
    /\ pc = "GracefulStop.wait" /\ ~crashed
    /\ grpcCalls = 0
    /\ pc' = "Stop.wgWait"
    /\ UNCHANGED <<pipe, config, startErr, handles, task, listener, inShutdown, wgCount,
                   stopLocal, calls, deadlineExpired, crashed, logged>>

\* Stop returning without the final s.wg.Wait().
StopWgWait_NoWait ==
    /\ pc = "Stop.wgWait" /\ ~crashed
    /\ pc' = "stopped"
    /\ stopErr' = "nil"
    /\ UNCHANGED <<pipe, config, startErr, handles, task, listener, inShutdown, wgCount,
                   stopWG, gHTTP, gMetrics, calls, deadlineExpired, crashed, logged>>

\* Stop returning the failures of its drain steps instead of nil.
StopWgWait_ReturnFailures ==
    /\ pc = "Stop.wgWait" /\ ~crashed
    /\ wgCount = 0
    /\ pc' = "stopped"
    /\ stopErr' = IF DrainFailures # {} THEN "err" ELSE "nil"
    /\ UNCHANGED <<pipe, config, startErr, handles, task, listener, inShutdown, wgCount,
                   stopWG, gHTTP, gMetrics, calls, deadlineExpired, crashed, logged>>

\* Stop, lines 198-200: s.wg.Wait() returns when the counter is zero, and Stop
\* returns nil.
StopWgWait ==
    /\ pc = "Stop.wgWait" /\ ~crashed
    /\ wgCount = 0
    /\ pc' = "stopped"
    /\ stopErr' = "nil"
    /\ UNCHANGED <<pipe, config, startErr, handles, task, listener, inShutdown, wgCount,
                   stopWG, gHTTP, gMetrics, calls, deadlineExpired, crashed, logged>>

-----------------------------------------------------------------------------
(* Specifications *)

Next ==
    \/ prepare
    \/ startGRPCServer
    \/ gatewayNewClient
    \/ gatewayRegister
    \/ startHTTPMetricsServer
    \/ gatewayServe
    \/ \E t \in Tasks : Serve(t)
    \/ \E t \in Tasks : ServeStopped(t)
    \/ \E t \in Tasks : ServeFault(t)
    \/ PanicEndsProcess
    \/ GrpcCallBegin
    \/ GrpcCallEnd
    \/ HttpCallBegin
    \/ HttpCallEnd
    \/ Stop
    \/ DeadlineExpire
    \/ gHTTPShutdown
    \/ gHTTPShutdownReturn
    \/ gHTTPClose
    \/ gMetricsShutdown
    \/ gMetricsShutdownReturn
    \/ StopWait
    \/ GracefulStop
    \/ GracefulStopReturn
    \/ StopWgWait

Spec == Init /\ [][Next]_vars

\* The scheduling the Go runtime guarantees: a thread or goroutine that can
\* take its next step eventually takes it, and a blocked call returns once what
\* it waits for holds.  Nothing obliges the environment to send calls, to break
\* a listener or to let the deadline pass.
SchedulerFairness ==
    /\ WF_vars(prepare) /\ WF_vars(startGRPCServer)
    /\ WF_vars(gatewayNewClient) /\ WF_vars(gatewayRegister)
    /\ WF_vars(startHTTPMetricsServer) /\ WF_vars(gatewayServe)
    /\ \A t \in Tasks : WF_vars(Serve(t)) /\ WF_vars(ServeStopped(t))
    /\ WF_vars(PanicEndsProcess)
    /\ WF_vars(gHTTPShutdown) /\ WF_vars(gHTTPShutdownReturn) /\ WF_vars(gHTTPClose)
    /\ WF_vars(gMetricsShutdown) /\ WF_vars(gMetricsShutdownReturn)
    /\ WF_vars(StopWait) /\ WF_vars(GracefulStop) /\ WF_vars(GracefulStopReturn)
    /\ WF_vars(StopWgWait)

\* Every call in flight eventually completes.
CallsComplete == WF_vars(GrpcCallEnd) /\ WF_vars(HttpCallEnd)

\* The program under a fair scheduler, with handlers that always return.
FairSpec == Spec /\ SchedulerFairness /\ CallsComplete

\* The program under a fair scheduler, with handlers that may take for ever:
\* what a deadline is for.
SlowCallSpec == Spec /\ SchedulerFairness

-----------------------------------------------------------------------------
(* Claims *)

\* Stop has returned to its caller.
StopReturned == pc = "stopped"

\* C1: in every execution of Stop, GracefulStop of the primary listener is
\* signalled only after the gateway goroutine (HTTP Shutdown returned, then the
\* gateway connection closed) and the metrics goroutine (Shutdown returned) are
\* both done; the connection is never closed while the HTTP Shutdown is still
\* outstanding; and the two goroutines run concurrently: neither waits for the
\* other to take its step.
C1_PrimaryDrainAfterGatewayAndMetrics ==
    /\ "grpc" \in inShutdown =>
         /\ httpServer # "nil" => gHTTP = "done" /\ grpcGatewayConn = "closed"
         /\ httpMetricsServer # "nil" => gMetrics = "done"
    /\ gHTTP \in {"Shutdown", "Shutdown.wait"} => grpcGatewayConn = "open"
    /\ ~crashed =>
         /\ gHTTP = "Shutdown" => ENABLED gHTTPShutdown
         /\ gMetrics = "Shutdown" => ENABLED gMetricsShutdown
         /\ gMetrics = "Shutdown.wait" => ENABLED gMetricsShutdownReturn

\* The primary listener is being drained after both goroutines of Stop ran.
C1_Witness ==
    /\ pc = "GracefulStop.wait"
    /\ httpServer # "nil" /\ httpMetricsServer # "nil"
    /\ grpcGatewayConn = "closed"

\* C2: Stop does not return before every call in flight on the primary listener
\* has completed, and once the drain of the primary listener has begun the
\* listener accepts no further call.
C2_StopWaitsForCallsInFlight ==
    /\ [](StopReturned => grpcCalls = 0)
    /\ [][("grpc" \in inShutdown) => grpcCalls' <= grpcCalls]_vars

\* Stop is blocked in GracefulStop with MaxCalls calls still in flight.
C2_Witness ==
    /\ pc = "GracefulStop.wait"
    /\ grpcCalls = MaxCalls

\* C3: whenever Stop returns after a successful Start, the counter of s.wg is
\* zero and no listener goroutine launched by Start is still running.
C3_StopReturnsWithNoTaskRunning ==
    (StopReturned /\ startErr = "nil") =>
        /\ wgCount = 0
        /\ \A t \in Tasks : task[t] \notin {"launched", "serving"}

\* Stop returned after primary, gateway and metrics listeners had been serving.
C3_Witness ==
    /\ StopReturned /\ startErr = "nil"
    /\ task["grpc"] = "exited" /\ task["http"] = "exited"
    /\ task["httpMetrics"] = "exited"

\* The primary listener broke while nobody had asked it to stop, and its
\* goroutine's panic has ended the process.
PrimaryListenerFault ==
    crashed /\ task["grpc"] = "panicked" /\ listener["grpc"] = "broken"

\* C4: for every combination of configured listeners, a Stop invoked after a
\* successful Start, with every call in flight completing, eventually returns
\* (unless a fault of the primary listener has ended the process): every
\* listener goroutine registered in s.wg is told to stop and exits, so the
\* final s.wg.Wait() does not block forever.
C4_StopEventuallyReturns ==
    (pc \in StopPcs /\ startErr = "nil") ~> (StopReturned \/ PrimaryListenerFault)

\* C5: every drain step of Stop is bounded by the deadline of Stop's context:
\* once the deadline has passed while Stop is still waiting (for the gateway
\* drain, the metrics drain, the drain of the primary listener or the listener
\* goroutines), Stop stops waiting, goes through the remaining steps and
\* returns, however long the calls in flight take.
C5_StopReturnsAfterDeadline ==
    (deadlineExpired /\ pc \in StopPcs) ~> (StopReturned \/ crashed)

\* C6: a failed drain step (gateway Shutdown, gateway connection Close, metrics
\* Shutdown) never prevents the later steps: the connection is still closed,
\* the primary listener is still told to drain, and Stop returns only after the
\* final wait for the listener goroutines.
C6_DrainFailureDoesNotStopLaterSteps ==
    DrainFailures # {} =>
        /\ pc \in {"Stop.wgWait", "stopped"} => "grpc" \in inShutdown
        /\ StopReturned => wgCount = 0
        /\ ~crashed =>
             /\ gHTTP = "Close" => ENABLED gHTTPClose
             /\ pc = "GracefulStop" => ENABLED GracefulStop

\* Stop returned although each of the three drain steps had failed.
C6_Witness ==
    /\ StopReturned /\ startErr = "nil"
    /\ {<<"http", "failed to stop">>, <<"conn", "failed to close">>,
        <<"metrics", "failed to stop">>} \subseteq logged

\* C7: in every execution of Start with the gateway enabled, the gateway's
\* client connection is constructed only after the primary listener is bound
\* and its goroutine launched, and the gateway goroutine is launched only
\* after that connection exists.
C7_PrimaryBeforeGatewayConnBeforeGatewayTask ==
    /\ grpcGatewayConn # "nil" =>
         listener["grpc"] \in {"bound", "broken"} /\ task["grpc"] # "none"
    /\ task["http"] # "none" => grpcGatewayConn # "nil"

\* The gateway is serving over an open connection to the primary listener.
C7_Witness ==
    /\ task["http"] = "serving"
    /\ grpcGatewayConn = "open"
    /\ task["grpc"] = "serving"

\* C8: if binding the primary address fails, Start returns an error and nothing
\* is left half-running: no goroutine launched, s.wg at zero, no gateway
\* connection, no gateway, metrics or profiling server handle set.
C8_PrimaryBindFailureLeavesNothingRunning ==
    listener["grpc"] = "failed" =>
        /\ startErr = "err"
        /\ wgCount = 0
        /\ \A t \in Tasks : task[t] = "none"
        /\ grpcGatewayConn = "nil"
        /\ httpServer = "nil" /\ httpMetricsServer = "nil" /\ pprofServer = "nil"

\* Start has returned after the bind of the primary address failed.
C8_Witness ==
    /\ listener["grpc"] = "failed"
    /\ pc = "started"

\* C9: a failed bind of the gateway, metrics or profiling address is returned
\* by Start as an error, the listener goroutine not being launched; it is
\* never observed only inside the listener goroutine.
C9_BindFailureReturnedByStart ==
    \A t \in {"http", "metrics", "pprof"} :
        listener[t] = "failed" => (startErr = "err" /\ task[t] = "none")

\* C10: of the unexpected serve errors of listeners that are serving, only the
\* primary listener's is raised as a panic; the gateway, metrics and profiling
\* goroutines log theirs, return and deregister from s.wg without panicking.
C10_OnlyPrimaryServeErrorPanics ==
    /\ \A t \in {"http", "metrics", "pprof"} :
         /\ listener[t] = "broken" => task[t] # "panicked"
         /\ <<t, "server error">> \in logged => task[t] = "exited"
    /\ <<"grpc", "server error">> \notin logged

-----------------------------------------------------------------------------
(* The call pipeline: pure functions *)

\* SpanContext.HasTraceID: the trace id is not the zero id.
HasTraceID(id) == \E i \in DOMAIN id : id[i] # 0

\* The digits of encoding/hex.
HexDigits == <<"0", "1", "2", "3", "4", "5", "6", "7", "8", "9",
               "a", "b", "c", "d", "e", "f">>

\* One byte as two lower-case hex digits, high nibble first.
HexByte(b) == HexDigits[(b \div 16) + 1] \o HexDigits[(b % 16) + 1]

\* TraceID.String: the hex encoding of the id's bytes, in order.
RECURSIVE HexString(_, _)
HexString(id, i) ==
    IF i > Len(id) THEN "" ELSE HexByte(id[i]) \o HexString(id, i + 1)

\* traceIDFromContext without the HasTraceID test.
traceIDFromContext_NoTest(id) ==
    [traceID |-> HexString(id, 1), ok |-> TRUE]

\* traceIDFromContext: (id as a string, true) when the context's span has a
\* trace id, ("", false) otherwise.
traceIDFromContext(id) ==
    IF HasTraceID(id)
      THEN [traceID |-> HexString(id, 1), ok |-> TRUE]
      ELSE [traceID |-> "", ok |-> FALSE]

\* The first and the last position of a character in an address, 0 when it
\* does not occur (bytealg.IndexByteString and LastIndexByteString, from 1).
IndexByte(a, c) ==
    IF \E i \in DOMAIN a : a[i] = c
      THEN CHOOSE i \in DOMAIN a : a[i] = c /\ \A j \in 1..(i - 1) : a[j] # c
      ELSE 0

LastIndexByte(a, c) ==
    IF \E i \in DOMAIN a : a[i] = c
      THEN CHOOSE i \in DOMAIN a : a[i] = c /\ \A j \in (i + 1)..Len(a) : a[j] # c
      ELSE 0

\* net.SplitHostPort: the port starts after the last colon; a host in brackets
\* ends right before that colon; a host without brackets holds no colon; no
\* other bracket anywhere.
SplitHostPort(hostport) ==
    LET i == LastIndexByte(hostport, ":")
        end == IndexByte(hostport, "]")
        bracketed == hostport[1] = "["
        host == IF bracketed THEN SubSeq(hostport, 2, end - 1)
                ELSE SubSeq(hostport, 1, i - 1)
        j == IF bracketed THEN 2 ELSE 1
        k == IF bracketed THEN end + 1 ELSE 1
        fail(e) == [host |-> <<>>, err |-> e]
    IN
    IF i = 0 THEN fail("missing port in address")
    ELSE IF bracketed /\ end = 0 THEN fail("missing ']' in address")
    ELSE IF bracketed /\ end = Len(hostport) THEN fail("missing port in address")
    ELSE IF bracketed /\ end + 1 # i /\ hostport[end + 1] = ":"
      THEN fail("too many colons in address")
    ELSE IF bracketed /\ end + 1 # i THEN fail("missing port in address")
    ELSE IF ~bracketed /\ IndexByte(host, ":") # 0 THEN fail("too many colons in address")
    ELSE IF IndexByte(SubSeq(hostport, j, Len(hostport)), "[") # 0
      THEN fail("unexpected '[' in address")
    ELSE IF IndexByte(SubSeq(hostport, k, Len(hostport)), "]") # 0
      THEN fail("unexpected ']' in address")
    ELSE [host |-> host, err |-> "nil"]

\* extractRemoteAddr answering with the peer's address as it is.
extractRemoteAddr_NoSplit(p) == IF p.present THEN p.addr ELSE <<>>

\* extractRemoteAddr: the host of the peer's address, "" without a peer in the
\* context and for an address that does not split.
extractRemoteAddr(p) ==
    IF p.present /\ SplitHostPort(p.addr).err = "nil"
      THEN SplitHostPort(p.addr).host
      ELSE <<>>

\* A context modifier that New replaced by none when none was given.
Modify_NoDefault(c) ==
    IF ctxModifiers = "identity" THEN <<"nil func">> ELSE Append(c, "hook")

\* What the context modifier in place returns for a context: the one New put
\* there returns the context it is given, the one WithContextModifiers set
\* returns a context it has added to.
Modify(c) == IF ctxModifiers = "identity" THEN c ELSE Append(c, "hook")

\* A natural number in decimal, as fmt prints it.
RECURSIVE Decimal(_)
Decimal(n) ==
    IF n < 10 THEN HexDigits[n + 1] ELSE Decimal(n \div 10) \o HexDigits[(n % 10) + 1]

\* errFromPanic, the switch: the text of an error, a string itself, and the
\* %#v form of any other value.
errText(p) ==
    CASE p.type = "error" -> p.text
      [] p.type = "string" -> p.text
      [] OTHER -> Decimal(p.int)

\* errFromPanic classifying the panic as Unknown and dropping its text.
errFromPanic_Unknown(p) ==
    [code |-> "Unknown", message |-> "recover"]

\* errFromPanic: status.Errorf(codes.Internal, "recover: %s", errText).
errFromPanic(p) ==
    [code |-> "Internal", message |-> "recover: " \o errText(p)]

\* Error() of a status error.
ErrorText(err) == "rpc error: code = " \o err.code \o " desc = " \o err.message

\* tracingDataServerInterceptor taking any value of x-trace-debug, not the first.
NeedDebug_AnyValue(md) ==
    md.present /\ \E i \in DOMAIN md.values : md.values[i] = "1"

\* tracingDataServerInterceptor, lines 104-109: needDebug.
NeedDebug(md) ==
    md.present /\ Len(md.values) > 0 /\ md.values[1] = "1"

\* protojson.Marshal of a request or response value that is a proto message.
protojsonMarshal(msg, space) ==
    IF msg.marshals
      THEN [err |-> FALSE, bytes |-> Text(msg.body, space /\ Commas(msg.body) > 0)]
      ELSE [err |-> TRUE, bytes |-> NoBytes]

\* The grpc_request attribute with a request of exactly MaxSpanBytes bytes let
\* through.
requestAttribute_Inclusive(req, space) ==
    IF req.type = "proto"
      THEN LET reqBytes == protojsonMarshal(req, space) IN
           IF ~reqBytes.err /\ TextLen(reqBytes.bytes) <= MaxSpanBytes
             THEN <<sanitizeBytes(reqBytes.bytes)>>
             ELSE <<>>
      ELSE <<>>

\* tracingDataServerInterceptor, lines 125-131: the grpc_request attribute, if
\* one is set.  A request of MaxSpanBytes bytes or more is left out.
requestAttribute(req, space) ==
    IF req.type = "proto"
      THEN LET reqBytes == protojsonMarshal(req, space) IN
           IF ~reqBytes.err /\ TextLen(reqBytes.bytes) < MaxSpanBytes
             THEN <<sanitizeBytes(reqBytes.bytes)>>
             ELSE <<>>
      ELSE <<>>

\* The grpc_response attribute sanitized first and cut afterwards.
responseAttribute_SanitizeFirst(rpcErr, resp, space) ==
    IF ~rpcErr /\ resp.type = "proto"
      THEN LET replyBytes == protojsonMarshal(resp, space)
               clean == sanitizeBytes(replyBytes.bytes)
           IN  IF replyBytes.err THEN <<>>
               ELSE IF TextLen(clean) > MaxSpanBytes
                 THEN <<Truncate(clean, MaxSpanBytes)>>
                 ELSE <<clean>>
      ELSE <<>>

\* tracingDataServerInterceptor, lines 135-144: the grpc_response attribute, if
\* one is set.  A response of more than MaxSpanBytes bytes is cut to its first
\* MaxSpanBytes bytes, then sanitized.
responseAttribute(rpcErr, resp, space) ==
    IF ~rpcErr /\ resp.type = "proto"
      THEN LET replyBytes == protojsonMarshal(resp, space) IN
           IF replyBytes.err THEN <<>>
           ELSE IF TextLen(replyBytes.bytes) > MaxSpanBytes
             THEN <<sanitizeBytes(Truncate(replyBytes.bytes, MaxSpanBytes))>>
             ELSE <<sanitizeBytes(replyBytes.bytes)>>
      ELSE <<>>

\* The interceptors of the initializers' options, in the order prepare appends
\* them.
initializerInterceptors == [i \in 1..interceptors |-> "initializerInterceptor"]

\* prepare, lines 204-212 and 225-229: the unary chain, outermost first.
unaryInterceptors ==
    <<"callServerInterceptor", "pprofUnaryInterceptor", "tracingDataServerInterceptor">>
    \o (IF recoverEnabled THEN <<"recoverUnaryGRPC">> ELSE <<>>)
    \o initializerInterceptors

\* prepare, lines 214-220 and 225-229: the stream chain, outermost first.
streamInterceptors ==
    <<"callServerStreamInterceptor", "pprofStreamInterceptor">>
    \o (IF recoverEnabled THEN <<"recoverStreamGRPC">> ELSE <<>>)
    \o initializerInterceptors

\* startHTTPGateway, lines 87-102: the handlers wrapped around the mux, the
\* outermost first.  Each assignment of targetHandlers wraps what was built
\* before it; setCORSMiddleware returns the handler it was given when no CORS
\* options were set.
targetHandlers ==
    (IF corsOptions # "none" THEN <<"setCORSMiddleware">> ELSE <<>>)
    \o <<"setCtxModifierHTTPMiddleware", "setTraceRouteHTTPMiddleware">>
    \o (IF recoverEnabled THEN <<"recoverHTTP">> ELSE <<>>)
    \o (IF pprofEnabled THEN <<"pprofHandler">> ELSE <<>>)

\* The chain a call of the given transport runs through.
ChainOf(kind) ==
    CASE kind = "unary" -> unaryInterceptors
      [] kind = "stream" -> streamInterceptors
      [] kind = "http" -> targetHandlers

\* The chain of the call being processed.
Chain == ChainOf(call.kind)

\* The recovery stages.
RecoverStages == {"recoverUnaryGRPC", "recoverStreamGRPC", "recoverHTTP"}

\* Context() of the stream built so far: each wrapper returns the context it
\* holds; the transport's stream returns the context the call arrived with.
Context(ss) == IF ss = <<>> THEN <<>> ELSE ss[Len(ss)].ctx

\* The layer that serves an operation called on the stream: WrappedServerStream
\* and streamWrapper embed the stream they wrap and define Context only.
Serves(ss, op) ==
    IF op = "Context" /\ ss # <<>> THEN ss[Len(ss)].type ELSE "transport"

-----------------------------------------------------------------------------
(* The call pipeline: one action per stage *)

\* The part of the service's state that processing a call leaves alone.
service == <<config, pc, startErr, handles, task, listener, inShutdown, wgCount,
             stopLocal, deadlineExpired, logged, options, sanitizer, gw, dialer>>

\* A started service whose primary and gateway listeners are serving, and
\* with them the metrics listener the gateway starts, for every combination of
\* the pipeline options.
Serving ==
    /\ endpointHTTP = ":port"
    /\ httpMetricsPort = ":port" /\ metricsEndpoint = "" /\ pprofEndpoint = ""
    /\ pc = "started" /\ startErr = "nil"
    /\ grpcServer = "created"
    /\ grpcGatewayConn = "open"
    /\ httpServer = "set"
    /\ httpMetricsServer = "httpMetrics" /\ pprofServer = "nil"
    /\ task = [t \in Tasks |->
                 IF t \in {"grpc", "http", "httpMetrics"} THEN "serving" ELSE "none"]
    /\ listener = [t \in Tasks |->
                     IF t \in {"grpc", "http", "httpMetrics"} THEN "bound" ELSE "none"]
    /\ inShutdown = {}
    /\ wgCount = 3
    /\ stopWG = 0 /\ gHTTP = "none" /\ gMetrics = "none" /\ stopErr = "none"
    /\ grpcCalls = 0 /\ httpCalls = 0
    /\ deadlineExpired = FALSE
    /\ crashed = FALSE
    /\ logged = {}

\* The state the pipeline is explored from.
PipeInit ==
    /\ Serving
    /\ recoverEnabled \in BOOLEAN
    /\ pprofEnabled \in BOOLEAN
    /\ interceptors \in 0..MaxInterceptors
    /\ ctxModifiers = "set"
    /\ corsOptions \in CORSSettings
    /\ otel = [provider |-> "noop", propagator |-> "tracecontext"]
    /\ withSanitizeKeys = <<>>
    /\ sanitizeKeys = NewSanitizeKeys(withSanitizeKeys)
    /\ payload = NoBytes
    /\ passes = <<>>
    /\ Idle

\* A listener accepts the given call and hands it to the outermost stage.  Only
\* a chain that holds an interceptor of an initializer can panic in one.
Arrives(c) ==
    /\ phase = "idle" /\ ~crashed
    /\ c.panicAt = "interceptor" => (c.kind # "http" /\ interceptors > 0)
    /\ call' = c
    /\ IF c.kind = "http"
         THEN /\ task["http"] = "serving" /\ "http" \notin inShutdown
              /\ httpCalls < MaxCalls
              /\ httpCalls' = httpCalls + 1
              /\ UNCHANGED grpcCalls
         ELSE /\ task["grpc"] = "serving" /\ "grpc" \notin inShutdown
              /\ grpcCalls < MaxCalls
              /\ grpcCalls' = grpcCalls + 1
              /\ UNCHANGED httpCalls
    /\ phase' = "down"
    /\ UNCHANGED <<service, hooked, attrs, reply, crashed, depth, ctx, stream, xTraceID, span,
                   result, panicking, events, errorLog, seen>>

\* A call arrives, on any transport, while none is being processed.
CallArrives ==
    /\ phase = "idle" /\ ~crashed
    /\ \E c \in Calls : Arrives(c)

\* A unary call arrives whose messages are of any kind and size.
CapturedCallArrives ==
    /\ phase = "idle" /\ ~crashed
    /\ \E c \in CapturedCalls : Arrives(c)

\* A call arrives from any peer, with or without a trace.
HookedCallArrives ==
    /\ phase = "idle" /\ ~crashed
    /\ \E c \in HookedCalls : Arrives(c)

\* The stage that runs next is the given one.
Entering(stage) ==
    /\ phase = "down" /\ ~crashed
    /\ depth < Len(Chain)
    /\ Chain[depth + 1] = stage

\* A stage that only calls the next handler with what it was given.
Pass(stage) ==
    /\ depth' = depth + 1
    /\ events' = Append(events, stage)
    /\ UNCHANGED <<service, hooked, attrs, reply, calls, crashed, phase, call, ctx, stream, xTraceID, span,
                   result, panicking, errorLog, seen>>

\* What a correlation stage does before its hook: the trace id is extracted
\* and, when there is one, set as x-trace-id of the response.
Correlate(stage, set) ==
    LET t == traceIDFromContext(call.traceID) IN
    /\ xTraceID' = IF t.ok THEN t.traceID ELSE xTraceID
    /\ events' = events \o <<stage, "traceIDFromContext">>
                        \o (IF t.ok THEN <<set>> ELSE <<>>)
                        \o <<"hook">>

\* The call of a context modifier, with the arguments the gRPC stages give
\* theirs (the context, the remote host and the trace id) and the context it
\* returns when it returns.
GRPCHookCall(hook, c) ==
    [hook |-> hook, ctx |-> c,
     remoteAddr |-> <<extractRemoteAddr(call.peer)>>,
     request |-> <<>>,
     traceID |-> traceIDFromContext(call.traceID).traceID,
     returns |-> Modify(c)]

\* The call of ctxHTTPModifier: the context, the request and the trace id.
HTTPHookCall(hook, c) ==
    [hook |-> hook, ctx |-> c,
     remoteAddr |-> <<>>,
     request |-> <<[RemoteAddr |-> call.peer.addr]>>,
     traceID |-> traceIDFromContext(call.traceID).traceID,
     returns |-> Modify(c)]

\* callServerStreamInterceptor without the trailer: the stream is wrapped and the
\* hook called, x-trace-id is not set.
callServerStreamInterceptor_NoTrailer ==
    /\ Entering("callServerStreamInterceptor")
    /\ events' = events \o <<"callServerStreamInterceptor", "traceIDFromContext", "hook">>
    /\ depth' = depth + 1
    /\ hooked' = Append(hooked, GRPCHookCall("ctxStreamModifier", Context(stream)))
    /\ IF call.panicAt = "hook"
         THEN /\ phase' = "panic"
              /\ panicking' = call.panic
              /\ stream' = Append(stream, [type |-> "WrappedServerStream",
                                           ctx |-> Context(stream)])
         ELSE /\ stream' = Append(stream, [type |-> "WrappedServerStream",
                                           ctx |-> Modify(Context(stream))])
              /\ UNCHANGED <<phase, panicking>>
    /\ UNCHANGED <<service, attrs, reply, calls, crashed, call, ctx, xTraceID, span, result, errorLog,
                   seen>>

\* callServerInterceptor, lines 55-64: the trailer, then ctxUnaryModifier, whose
\* context goes to the handler.
callServerInterceptor ==
    /\ Entering("callServerInterceptor")
    /\ Correlate("callServerInterceptor", "SetTrailer")
    /\ depth' = depth + 1
    /\ hooked' = Append(hooked, GRPCHookCall("ctxUnaryModifier", ctx))
    /\ IF call.panicAt = "hook"
         THEN /\ phase' = "panic"
              /\ panicking' = call.panic
              /\ UNCHANGED ctx
         ELSE /\ ctx' = Modify(ctx)
              /\ UNCHANGED <<phase, panicking>>
    /\ UNCHANGED <<service, attrs, reply, calls, crashed, call, stream, span, result, errorLog, seen>>

\* callServerStreamInterceptor, lines 76-91: the stream is wrapped, the trailer
\* set on it, then ctxStreamModifier, whose context the wrapper is given.
callServerStreamInterceptor ==
    /\ Entering("callServerStreamInterceptor")
    /\ Correlate("callServerStreamInterceptor", "SetTrailer")
    /\ depth' = depth + 1
    /\ hooked' = Append(hooked, GRPCHookCall("ctxStreamModifier", Context(stream)))
    /\ IF call.panicAt = "hook"
         THEN /\ phase' = "panic"
              /\ panicking' = call.panic
              /\ stream' = Append(stream, [type |-> "WrappedServerStream",
                                           ctx |-> Context(stream)])
         ELSE /\ stream' = Append(stream, [type |-> "WrappedServerStream",
                                           ctx |-> Modify(Context(stream))])
              /\ UNCHANGED <<phase, panicking>>
    /\ UNCHANGED <<service, attrs, reply, calls, crashed, call, ctx, span, result, errorLog, seen>>

\* setCtxModifierHTTPMiddleware: the header, then ctxHTTPModifier, whose
\* context the request is given.
setCtxModifierHTTPMiddleware ==
    /\ Entering("setCtxModifierHTTPMiddleware")
    /\ Correlate("setCtxModifierHTTPMiddleware", "Header.Set")
    /\ depth' = depth + 1
    /\ hooked' = Append(hooked, HTTPHookCall("ctxHTTPModifier", ctx))
    /\ IF call.panicAt = "hook"
         THEN /\ phase' = "panic"
              /\ panicking' = call.panic
              /\ UNCHANGED ctx
         ELSE /\ ctx' = Modify(ctx)
              /\ UNCHANGED <<phase, panicking>>
    /\ UNCHANGED <<service, attrs, reply, calls, crashed, call, stream, span, result, errorLog, seen>>

\* pprofUnaryInterceptor: pprof.Do runs the handler with the labelled context.
pprofUnaryInterceptor ==
    /\ Entering("pprofUnaryInterceptor")
    /\ depth' = depth + 1
    /\ events' = Append(events, "pprofUnaryInterceptor")
    /\ ctx' = Append(ctx, "pprof.Labels")
    /\ UNCHANGED <<service, hooked, attrs, reply, calls, crashed, phase, call, stream, xTraceID, span, result,
                   panicking, errorLog, seen>>

\* pprofStreamInterceptor labelling the context the call arrived with, not the
\* one of the stream it is handed.
pprofStreamInterceptor_BaseContext ==
    /\ Entering("pprofStreamInterceptor")
    /\ depth' = depth + 1
    /\ events' = Append(events, "pprofStreamInterceptor")
    /\ stream' = Append(stream, [type |-> "streamWrapper", ctx |-> <<"pprof.Labels">>])
    /\ UNCHANGED <<service, hooked, attrs, reply, calls, crashed, phase, call, ctx, xTraceID, span, result,
                   panicking, errorLog, seen>>

\* pprofStreamInterceptor: pprof.Do labels ss.Context(), and the handler gets
\* the stream wrapped with that context.
pprofStreamInterceptor ==
    /\ Entering("pprofStreamInterceptor")
    /\ depth' = depth + 1
    /\ events' = Append(events, "pprofStreamInterceptor")
    /\ stream' = Append(stream, [type |-> "streamWrapper",
                                 ctx |-> Append(Context(stream), "pprof.Labels")])
    /\ UNCHANGED <<service, hooked, attrs, reply, calls, crashed, phase, call, ctx, xTraceID, span, result,
                   panicking, errorLog, seen>>

\* tracingDataServerInterceptor, lines 103-133: without the debug flag the
\* handler is called at once; with it the span is started and the request
\* attached to it first.
tracingDataServerInterceptor ==
    /\ Entering("tracingDataServerInterceptor")
    /\ depth' = depth + 1
    /\ IF NeedDebug(call.md)
         THEN /\ span' = "open"
              /\ ctx' = Append(ctx, "span")
              /\ attrs' = [attrs EXCEPT !.grpc_request = requestAttribute(call.req, call.space)]
              /\ events' = events \o <<"tracingDataServerInterceptor", "span.Start">>
         ELSE /\ events' = Append(events, "tracingDataServerInterceptor")
              /\ UNCHANGED <<span, ctx, attrs>>
    /\ UNCHANGED <<service, hooked, reply, calls, crashed, phase, call, stream, xTraceID, result,
                   panicking, errorLog, seen>>

\* setCORSMiddleware: the handler of cors.New(options).  A preflight request
\* is answered here with 204 and goes no further, unless OptionsPassthrough
\* is set; any other request gets its CORS headers and goes to the next handler.
setCORSMiddleware ==
    /\ Entering("setCORSMiddleware")
    /\ IF call.preflight /\ corsOptions # "passthrough"
         THEN /\ depth' = depth + 1
              /\ events' = Append(events, "setCORSMiddleware")
              /\ phase' = "up"
              /\ result' = [outcome |-> "http", code |-> "204", message |-> ""]
              /\ UNCHANGED <<service, hooked, attrs, reply, calls, crashed, call, ctx, stream,
                             xTraceID, span, panicking, errorLog, seen>>
         ELSE Pass("setCORSMiddleware")

\* recoverUnaryGRPC: the deferred function is registered, the handler called.
recoverUnaryGRPC ==
    /\ Entering("recoverUnaryGRPC")
    /\ Pass("recoverUnaryGRPC")

\* recoverStreamGRPC: the same for a stream.
recoverStreamGRPC ==
    /\ Entering("recoverStreamGRPC")
    /\ Pass("recoverStreamGRPC")

\* recoverHTTP: the same for a gateway request.
recoverHTTP ==
    /\ Entering("recoverHTTP")
    /\ Pass("recoverHTTP")

\* setTraceRouteHTTPMiddleware: the request URI is tagged on the span.
setTraceRouteHTTPMiddleware ==
    /\ Entering("setTraceRouteHTTPMiddleware")
    /\ Pass("setTraceRouteHTTPMiddleware")

\* pprofHandler: a request outside /debug/pprof/ goes to the next handler.
pprofHandler ==
    /\ Entering("pprofHandler")
    /\ Pass("pprofHandler")

\* An interceptor of an initializer: it calls the handler it is given, or panics.
initializerInterceptor ==
    /\ Entering("initializerInterceptor")
    /\ depth' = depth + 1
    /\ events' = Append(events, "initializerInterceptor")
    /\ IF call.panicAt = "interceptor"
         THEN phase' = "panic" /\ panicking' = call.panic
         ELSE UNCHANGED <<phase, panicking>>
    /\ UNCHANGED <<service, hooked, attrs, reply, calls, crashed, call, ctx, stream, xTraceID, span, result,
                   errorLog, seen>>

\* The user handler (for a gateway request, the mux): it is handed the context,
\* or the stream, of the innermost stage; it returns a response or an error,
\* or panics.  A unary handler that succeeds returns the call's response.
handler ==
    /\ phase = "down" /\ ~crashed
    /\ depth = Len(Chain)
    /\ seen' = [ctx |-> IF call.kind = "stream" THEN Context(stream) ELSE ctx,
                ops |-> [op \in StreamOps |->
                           IF call.kind = "stream" THEN Serves(stream, op) ELSE "none"]]
    /\ events' = events \o <<"handler">>
                        \o (IF call.kind = "stream" /\ call.panicAt # "handler"
                              THEN <<"SendMsg">> ELSE <<>>)
    /\ IF call.panicAt = "handler"
         THEN /\ phase' = "panic"
              /\ panicking' = call.panic
              /\ UNCHANGED <<result, reply>>
         ELSE /\ phase' = "up"
              /\ reply' = IF call.kind = "unary" /\ ~call.handlerErr
                             THEN call.resp
                             ELSE NilMessage
              /\ result' =
                   IF call.kind = "http"
                     THEN [outcome |-> "http",
                           code |-> IF call.handlerErr THEN "404" ELSE "200",
                           message |-> ""]
                     ELSE IF call.handlerErr
                       THEN [outcome |-> "error", code |-> "NotFound",
                             message |-> "not found"]
                       ELSE [outcome |-> "response", code |-> "OK", message |-> ""]
              /\ UNCHANGED panicking
    /\ UNCHANGED <<service, hooked, attrs, calls, crashed, call, depth, ctx, stream, xTraceID, span,
                   errorLog>>

\* The data-capture stage failing the call when the response it was handed
\* cannot be serialized.
Return_FailOnMarshalError ==
    /\ phase = "up" /\ ~crashed
    /\ depth > 0
    /\ depth' = depth - 1
    /\ IF Chain[depth] = "tracingDataServerInterceptor" /\ span = "open"
         THEN /\ attrs' = [attrs EXCEPT !.grpc_response =
                             responseAttribute(result.outcome # "response", reply, call.space)]
              /\ span' = "ended"
              /\ events' = Append(events, "span.End")
              /\ IF result.outcome = "response"
                      /\ (reply.type # "proto" \/ protojsonMarshal(reply, call.space).err)
                   THEN /\ result' = [outcome |-> "error", code |-> "Internal",
                                      message |-> "marshal"]
                        /\ reply' = NilMessage
                   ELSE UNCHANGED <<result, reply>>
         ELSE UNCHANGED <<span, attrs, events, result, reply>>
    /\ UNCHANGED <<service, hooked, calls, crashed, phase, call, ctx, stream, xTraceID, panicking,
                   errorLog, seen>>

\* The innermost stage on the stack returns to its caller what it got from the
\* handler; the data-capture stage first attaches the response to the span it
\* started, and its deferred span.End() runs.
Return ==
    /\ phase = "up" /\ ~crashed
    /\ depth > 0
    /\ depth' = depth - 1
    /\ IF Chain[depth] = "tracingDataServerInterceptor" /\ span = "open"
         THEN /\ attrs' = [attrs EXCEPT !.grpc_response =
                             responseAttribute(result.outcome # "response", reply, call.space)]
              /\ span' = "ended"
              /\ events' = Append(events, "span.End")
         ELSE UNCHANGED <<span, attrs, events>>
    /\ UNCHANGED <<service, hooked, reply, calls, crashed, phase, call, ctx, stream, xTraceID, result,
                   panicking, errorLog, seen>>

\* recoverHTTP's deferred function answering 200 with an empty body.
recovered_NoError ==
    /\ phase = "panic" /\ ~crashed
    /\ depth > 0
    /\ Chain[depth] \in RecoverStages
    /\ errorLog' = Append(errorLog,
         [msg |-> "recovered", panic |-> panicking, traceID |-> "absent", stack |-> TRUE])
    /\ result' = IF Chain[depth] = "recoverHTTP"
                   THEN [outcome |-> "http", code |-> "200", message |-> ""]
                   ELSE [outcome |-> "response", code |-> "OK", message |-> ""]
    /\ reply' = NilMessage
    /\ phase' = "up"
    /\ panicking' = NoPanic
    /\ events' = Append(events, "recover")
    /\ depth' = depth - 1
    /\ UNCHANGED <<service, hooked, attrs, calls, crashed, call, ctx, stream, xTraceID, span, seen>>

\* The deferred function of recoverUnaryGRPC, recoverStreamGRPC and recoverHTTP:
\* recover() stops the panic, which is logged with the trace id, if any, and
\* the stack; the stage returns errFromPanic's error, recoverHTTP writes it with
\* http.Error as a 500.
recovered ==
    /\ phase = "panic" /\ ~crashed
    /\ depth > 0
    /\ Chain[depth] \in RecoverStages
    /\ LET t == traceIDFromContext(call.traceID)
           err == errFromPanic(panicking)
       IN  /\ errorLog' = Append(errorLog,
                [msg |-> IF Chain[depth] = "recoverHTTP"
                           THEN "recovered from http panic"
                           ELSE "recovered from grpc panic",
                 panic |-> panicking,
                 traceID |-> IF t.ok THEN t.traceID ELSE "absent",
                 stack |-> TRUE])
           /\ result' =
                IF Chain[depth] = "recoverHTTP"
                  THEN [outcome |-> "http", code |-> "500",
                        message |-> ErrorText(err) \o "\n"]
                  ELSE [outcome |-> "error", code |-> err.code, message |-> err.message]
    /\ reply' = NilMessage
    /\ phase' = "up"
    /\ panicking' = NoPanic
    /\ events' = Append(events, "recover")
    /\ depth' = depth - 1
    /\ UNCHANGED <<service, hooked, attrs, calls, crashed, call, ctx, stream, xTraceID, span, seen>>

\* A panic leaving the data-capture stage without its span being ended.
Unwind_SpanLeft ==
    /\ phase = "panic" /\ ~crashed
    /\ depth > 0
    /\ Chain[depth] \notin RecoverStages
    /\ depth' = depth - 1
    /\ UNCHANGED <<service, hooked, attrs, reply, calls, crashed, phase, call, ctx, stream, xTraceID,
                   span, result, panicking, events, errorLog, seen>>

\* A panic leaves a stage that does not recover; the deferred span.End() of
\* the data-capture stage runs on the way.
Unwind ==
    /\ phase = "panic" /\ ~crashed
    /\ depth > 0
    /\ Chain[depth] \notin RecoverStages
    /\ depth' = depth - 1
    /\ IF Chain[depth] = "tracingDataServerInterceptor" /\ span = "open"
         THEN span' = "ended" /\ events' = Append(events, "span.End")
         ELSE UNCHANGED <<span, events>>
    /\ UNCHANGED <<service, hooked, attrs, reply, calls, crashed, phase, call, ctx, stream, xTraceID, result,
                   panicking, errorLog, seen>>

\* The outermost stage is left.  A returned result goes to the caller.  A panic
\* that nothing recovered ends the process when it leaves a goroutine of the
\* gRPC server; net/http recovers it in its own goroutine and drops the
\* connection.
Deliver ==
    /\ phase \in {"up", "panic"} /\ ~crashed
    /\ depth = 0
    /\ phase' = "done"
    /\ IF phase = "panic"
         THEN /\ result' = [outcome |-> IF call.kind = "http" THEN "aborted" ELSE "panic",
                            code |-> "", message |-> ""]
              /\ crashed' = (call.kind # "http")
         ELSE UNCHANGED <<result, crashed>>
    /\ IF call.kind = "http"
         THEN httpCalls' = httpCalls - 1 /\ UNCHANGED grpcCalls
         ELSE grpcCalls' = grpcCalls - 1 /\ UNCHANGED httpCalls
    /\ UNCHANGED <<service, hooked, attrs, reply, call, depth, ctx, stream, xTraceID, span, panicking, events,
                   errorLog, seen>>

\* The call is over: nothing of it is kept.
CallOver ==
    /\ phase = "done" /\ ~crashed
    /\ phase' = "idle"
    /\ call' = NoCall
    /\ depth' = 0
    /\ ctx' = <<>>
    /\ hooked' = <<>>
    /\ stream' = <<>>
    /\ xTraceID' = "unset"
    /\ span' = "none"
    /\ attrs' = NoAttrs
    /\ reply' = NilMessage
    /\ result' = NoResult
    /\ panicking' = NoPanic
    /\ events' = <<>>
    /\ errorLog' = <<>>
    /\ seen' = NotSeen
    /\ UNCHANGED <<service, calls, crashed>>

PipeNext ==
    \/ CallArrives
    \/ callServerInterceptor
    \/ callServerStreamInterceptor
    \/ setCtxModifierHTTPMiddleware
    \/ setCORSMiddleware
    \/ pprofUnaryInterceptor
    \/ pprofStreamInterceptor
    \/ tracingDataServerInterceptor
    \/ recoverUnaryGRPC
    \/ recoverStreamGRPC
    \/ recoverHTTP
    \/ setTraceRouteHTTPMiddleware
    \/ pprofHandler
    \/ initializerInterceptor
    \/ handler
    \/ Return
    \/ recovered
    \/ Unwind
    \/ Deliver
    \/ CallOver

\* The pipeline of a serving service, one call after another.
PipeSpec == PipeInit /\ [][PipeNext]_vars

\* The state the capture of unary calls is explored from: a serving service,
\* with and without the recovery stage, with the default denylist and with one
\* of its own.
CaptureInit ==
    /\ Serving
    /\ recoverEnabled \in BOOLEAN
    /\ pprofEnabled = FALSE
    /\ interceptors = 0
    /\ ctxModifiers = "set"
    /\ corsOptions = "none"
    /\ otel = [provider |-> "noop", propagator |-> "tracecontext"]
    /\ withSanitizeKeys \in {<<>>, <<"apiKey">>}
    /\ sanitizeKeys = NewSanitizeKeys(withSanitizeKeys)
    /\ payload = NoBytes
    /\ passes = <<>>
    /\ Idle

CaptureNext ==
    \/ CapturedCallArrives
    \/ callServerInterceptor
    \/ pprofUnaryInterceptor
    \/ tracingDataServerInterceptor
    \/ recoverUnaryGRPC
    \/ handler
    \/ Return
    \/ recovered
    \/ Unwind
    \/ Deliver
    \/ CallOver

\* Unary calls with messages of every kind and size, one after another.
CaptureSpec == CaptureInit /\ [][CaptureNext]_vars

\* The state the enrichment of calls is explored from: a serving service with
\* the context modifiers New put in place or with those WithContextModifiers
\* set, with and without the recovery stage.
HookInit ==
    /\ Serving
    /\ recoverEnabled \in BOOLEAN
    /\ pprofEnabled = FALSE
    /\ interceptors = 0
    /\ ctxModifiers \in {"identity", "set"}
    /\ corsOptions \in CORSSettings
    /\ otel = [provider |-> "noop", propagator |-> "tracecontext"]
    /\ withSanitizeKeys = <<>>
    /\ sanitizeKeys = NewSanitizeKeys(withSanitizeKeys)
    /\ payload = NoBytes
    /\ passes = <<>>
    /\ Idle

HookNext ==
    \/ HookedCallArrives
    \/ callServerInterceptor
    \/ callServerStreamInterceptor
    \/ setCtxModifierHTTPMiddleware
    \/ setCORSMiddleware
    \/ pprofUnaryInterceptor
    \/ pprofStreamInterceptor
    \/ tracingDataServerInterceptor
    \/ recoverUnaryGRPC
    \/ recoverStreamGRPC
    \/ recoverHTTP
    \/ setTraceRouteHTTPMiddleware
    \/ handler
    \/ Return
    \/ Unwind
    \/ Deliver
    \/ CallOver

\* Calls on every transport, from every peer, one after another.
HookSpec == HookInit /\ [][HookNext]_vars

\* The state the sanitizer is explored from: a service with any denylist, and
\* any payload.
SanitizeInit ==
    /\ endpointHTTP = ":port"
    /\ httpMetricsPort = ":port" /\ metricsEndpoint = "" /\ pprofEndpoint = ""
    /\ withSanitizeKeys \in SanitizeKeysOptions
    /\ sanitizeKeys = NewSanitizeKeys(withSanitizeKeys)
    /\ payload \in Payloads
    /\ passes = <<>>
    /\ NotStarted

\* sanitizeBytes is applied to the payload, then to what it returned.
sanitize ==
    /\ Len(passes) < MaxPasses
    /\ passes' = Append(passes, sanitizeBytes(IF passes = <<>>
                                                THEN payload
                                                ELSE passes[Len(passes)]))
    /\ UNCHANGED <<config, pc, startErr, handles, task, listener, inShutdown, wgCount,
                   stopLocal, calls, deadlineExpired, crashed, logged, options, payload,
                   phase, call, depth, ctx, hooked, stream, xTraceID, span, attrs, reply,
                   result, panicking, events, errorLog, seen, gw, dialer>>

SanitizeNext == sanitize

\* The sanitizer applied to every payload, under every denylist.
SanitizeSpec == SanitizeInit /\ [][SanitizeNext]_vars

-----------------------------------------------------------------------------
(* The gateway bridge: a request on the gateway listener forwarded as a call *)
(* to the primary listener                                                   *)

\* The trace ids and span ids a tracer draws for a new span, and the ones a
\* client of the gateway sends.
NewTraceIDs == {[i \in 1..TraceIDLen |-> 10], [i \in 1..TraceIDLen |-> IF i = 1 THEN 255 ELSE 0]}

NewSpanIDs == {10, 255}

\* SpanContext.IsValid: a non-zero trace id and a non-zero span id.
IsValid(sc) == HasTraceID(sc.traceID) /\ sc.spanID # 0

\* propagation.TraceContext.Inject: the traceparent entry of a valid span
\* context, as its fields version, trace id, span id and flags (joined by "-"
\* in the header); nothing for an invalid one.  The propagator a process has
\* before it sets one injects nothing.
Inject(propagator, sc) ==
    IF propagator = "tracecontext" /\ IsValid(sc)
      THEN <<"00", HexString(sc.traceID, 1), HexByte(sc.spanID),
             IF sc.sampled THEN "01" ELSE "00">>
      ELSE <<>>

\* The bytes a hex string stands for, when it stands for any.
Decodes(h, ids) == \E id \in ids : HexString(id, 1) = h

HexDecode(h, ids) == CHOOSE id \in ids : HexString(id, 1) = h

\* propagation.TraceContext.Extract: the span context a traceparent entry
\* stands for, the zero one when there is no entry, when it does not parse or
\* when it names a zero id.
Extract(propagator, traceparent) ==
    IF /\ propagator = "tracecontext"
       /\ Len(traceparent) = 4
       /\ traceparent[1] = "00"
       /\ Decodes(traceparent[2], TraceIDs)
       /\ Decodes(traceparent[3], {<<b>> : b \in Bytes})
       /\ traceparent[4] \in {"00", "01"}
      THEN LET sc == [traceID |-> HexDecode(traceparent[2], TraceIDs),
                      spanID |-> HexDecode(traceparent[3], {<<b>> : b \in Bytes})[1],
                      sampled |-> traceparent[4] = "01"]
           IN IF IsValid(sc) THEN sc ELSE NoSpanContext
      ELSE NoSpanContext

\* Tracer.Start: the span contexts a new span may get under the given parent.
\* The tracer of the provider a process has before it sets one hands the
\* parent's span context on; the SDK's keeps the trace id of a valid parent and
\* draws a new one without, and draws the span id.
Start(provider, parent) ==
    IF provider = "noop" THEN {parent}
    ELSE IF IsValid(parent)
      THEN {[traceID |-> parent.traceID, spanID |-> s, sampled |-> parent.sampled] :
              s \in NewSpanIDs}
      ELSE {[traceID |-> t, spanID |-> s, sampled |-> TRUE] :
              t \in NewTraceIDs, s \in NewSpanIDs}

\* propagateTraceContext: the metadata the process's propagator injects for the
\* request's context.
propagateTraceContext(sc) == Inject(otel.propagator, sc)

\* The paths requests come for: a route of the gateway, and the one the
\* tracing middleware leaves out.
Paths == {"/v1/hello", "/metrics"}

\* The traceparent headers requests come with: none, those of traced clients,
\* one that names no trace.
Traceparents ==
    {<<>>}
    \cup {Inject("tracecontext", [traceID |-> t, spanID |-> 10, sampled |-> TRUE]) :
            t \in NewTraceIDs}
    \cup {<<"00", HexString(NoSpanContext.traceID, 1), HexByte(10), "01">>}

\* What a step of the bridge leaves alone.
BridgeStep ==
    UNCHANGED <<config, pc, startErr, handles, task, listener, inShutdown, wgCount,
                stopLocal, deadlineExpired, logged, options, sanitizer, calls, crashed,
                phase, call, depth, ctx, hooked, stream, xTraceID, span, attrs, reply, result,
                panicking, events, errorLog, seen, dialer>>

\* A request arrives on the gateway listener.
GatewayArrives ==
    /\ gw.step = "idle" /\ phase = "idle" /\ ~crashed
    /\ task["http"] = "serving" /\ "http" \notin inShutdown
    /\ \E path \in Paths, tp \in Traceparents :
         gw' = [NoGatewayCall EXCEPT !.step = "otelhttp", !.path = path, !.traceparent = tp]
    /\ BridgeStep

\* startHTTPGateway, lines 118-129: the tracing middleware, outermost.  A
\* request for /metrics goes on as it came; for any other the propagator's
\* context is extracted from the headers and a span started under it.
otelhttpMiddleware ==
    /\ gw.step = "otelhttp"
    /\ IF gw.path = "/metrics"
         THEN gw' = [gw EXCEPT !.step = "middleware"]
         ELSE \E sc \in Start(otel.provider, Extract(otel.propagator, gw.traceparent)) :
                gw' = [gw EXCEPT !.step = "middleware", !.httpCtx = sc]
    /\ BridgeStep

\* setCtxModifierHTTPMiddleware, lines 211-215: x-trace-id of the response.
gatewayTraceID ==
    /\ gw.step = "middleware"
    /\ LET t == traceIDFromContext(gw.httpCtx.traceID) IN
       gw' = [gw EXCEPT !.step = "mux",
                        !.header = IF t.ok THEN t.traceID ELSE gw.header]
    /\ BridgeStep

\* The mux annotates the outbound context with the metadata of
\* propagateTraceContext (startHTTPGateway, lines 33-35).
gatewayAnnotate ==
    /\ gw.step = "mux"
    /\ gw' = [gw EXCEPT !.step = "client", !.annotated = propagateTraceContext(gw.httpCtx)]
    /\ BridgeStep

\* The client's stats handler (startHTTPGateway, line 60): a client span under
\* the request's, injected into the metadata that goes on the wire, where it
\* takes the place of an entry of the same key.
otelgrpcClientHandler ==
    /\ gw.step = "client"
    /\ \E sc \in Start(otel.provider, gw.httpCtx) :
         LET injected == Inject(otel.propagator, sc) IN
         gw' = [gw EXCEPT !.step = "server",
                          !.wire = IF injected # <<>> THEN injected ELSE gw.annotated]
    /\ BridgeStep

\* The server's stats handler (prepare, line 223): the context extracted from
\* the metadata of the call, and a server span started under it.
otelgrpcServerHandler ==
    /\ gw.step = "server"
    /\ task["grpc"] = "serving"
    /\ \E sc \in Start(otel.provider, Extract(otel.propagator, gw.wire)) :
         gw' = [gw EXCEPT !.step = "interceptor", !.grpcCtx = sc]
    /\ BridgeStep

\* callServerInterceptor, lines 55-59, for the forwarded call: x-trace-id of
\* its trailer.
forwardedTraceID ==
    /\ gw.step = "interceptor"
    /\ LET t == traceIDFromContext(gw.grpcCtx.traceID) IN
       gw' = [gw EXCEPT !.step = "done",
                        !.trailer = IF t.ok THEN t.traceID ELSE gw.trailer]
    /\ BridgeStep

\* The response has gone out.
GatewayOver ==
    /\ gw.step = "done"
    /\ gw' = NoGatewayCall
    /\ BridgeStep

\* The state the bridge is explored from: a serving service in a process with
\* any tracer provider and any propagator.
BridgeInit ==
    /\ Serving
    /\ recoverEnabled = FALSE
    /\ pprofEnabled = FALSE
    /\ interceptors = 0
    /\ ctxModifiers = "identity"
    /\ corsOptions = "none"
    /\ otel \in OtelSettings
    /\ withSanitizeKeys = <<>>
    /\ sanitizeKeys = NewSanitizeKeys(withSanitizeKeys)
    /\ payload = NoBytes
    /\ passes = <<>>
    /\ Idle

BridgeNext ==
    \/ GatewayArrives
    \/ otelhttpMiddleware
    \/ gatewayTraceID
    \/ gatewayAnnotate
    \/ otelgrpcClientHandler
    \/ otelgrpcServerHandler
    \/ forwardedTraceID
    \/ GatewayOver

\* Requests on the gateway listener, one after another.
BridgeSpec == BridgeInit /\ [][BridgeNext]_vars

-----------------------------------------------------------------------------
(* grpcdial.Dialer: Dial, DialNoClose and Stop, called one after another *)

\* errors.Join(err, e) as Stop calls it, e not nil: a join error that wraps e
\* alone when err is nil, err and e otherwise.
Join(err, e) ==
    [kind |-> "join", conn |-> 0, errs |-> IF err = Nil THEN <<e>> ELSE <<err, e>>]

\* What the dialer's caller leaves alone.
DialerStep ==
    UNCHANGED <<config, pc, startErr, handles, task, listener, inShutdown, wgCount,
                stopLocal, deadlineExpired, logged, options, sanitizer, calls, crashed,
                phase, call, depth, ctx, hooked, stream, xTraceID, span, attrs, reply, result,
                panicking, events, errorLog, seen, gw>>

\* dialHelper: a second Dial of a target panics; otherwise grpc.NewClient
\* makes a connection or fails, and a connection made by Dial is stored under
\* its target.  closeErr says whether Close of the connection will fail.
dialHelper(target, saveCon, newClientErr, closeErr) ==
    /\ dialer.pc = "running"
    /\ Len(dialer.conns) < MaxDials
    /\ IF saveCon /\ dialer.connections[target] # 0
         THEN dialer' = [dialer EXCEPT !.pc = "panicked"]
         ELSE IF newClientErr
           THEN dialer' = dialer
           ELSE dialer' =
                  [dialer EXCEPT
                     !.conns = Append(@, [target |-> target, saveCon |-> saveCon,
                                          closeErr |-> closeErr, closed |-> 0]),
                     !.connections = IF saveCon
                                       THEN [@ EXCEPT ![target] = Len(dialer.conns) + 1]
                                       ELSE @]
    /\ DialerStep

\* Dial.
Dial ==
    \E target \in Targets, newClientErr, closeErr \in BOOLEAN :
      /\ newClientErr => ~closeErr
      /\ dialHelper(target, TRUE, newClientErr, closeErr)

\* DialNoClose.
DialNoClose ==
    \E target \in Targets, newClientErr, closeErr \in BOOLEAN :
      /\ newClientErr => ~closeErr
      /\ dialHelper(target, FALSE, newClientErr, closeErr)

\* The orders a range over the map may visit its keys in.
Ranges(keys) ==
    {q \in [1..Cardinality(keys) -> keys] : \A i, j \in DOMAIN q : q[i] = q[j] => i = j}

\* The error Close of the connection at the given position returns.
CloseError(i) == [kind |-> "close", conn |-> i, errs |-> <<>>]

\* Stop's loop over the keys from position k on: the connections closed so far
\* and the error so far.
RECURSIVE StopLoop_ReturnOnError(_, _, _, _)
StopLoop_ReturnOnError(q, k, conns, err) ==
    IF k > Len(q) \/ err # Nil THEN [conns |-> conns, err |-> err]
    ELSE LET i == dialer.connections[q[k]] IN
         StopLoop_ReturnOnError(q, k + 1, [conns EXCEPT ![i].closed = @ + 1],
                  IF conns[i].closeErr THEN Join(err, CloseError(i)) ELSE err)

RECURSIVE StopLoop(_, _, _, _)
StopLoop(q, k, conns, err) ==
    IF k > Len(q) THEN [conns |-> conns, err |-> err]
    ELSE LET i == dialer.connections[q[k]] IN
         StopLoop(q, k + 1, [conns EXCEPT ![i].closed = @ + 1],
                  IF conns[i].closeErr THEN Join(err, CloseError(i)) ELSE err)

\* Stop: every connection of the map is closed, in the order the range visits
\* them, and the errors are joined.
DialerStop ==
    /\ dialer.pc = "running"
    /\ \E q \in Ranges({t \in Targets : dialer.connections[t] # 0}) :
         LET r == StopLoop(q, 1, dialer.conns, Nil) IN
         dialer' = [dialer EXCEPT !.pc = "stopped", !.conns = r.conns, !.stopErr = r.err]
    /\ DialerStep

\* The state a dialer is explored from.
DialInit ==
    /\ endpointHTTP = ":port"
    /\ httpMetricsPort = ":port" /\ metricsEndpoint = "" /\ pprofEndpoint = ""
    /\ withSanitizeKeys = <<>>
    /\ sanitizeKeys = NewSanitizeKeys(withSanitizeKeys)
    /\ payload = NoBytes
    /\ passes = <<>>
    /\ NotStarted

DialNext ==
    \/ Dial
    \/ DialNoClose
    \/ DialerStop

\* Dial and DialNoClose in any sequence, then Stop.
DialSpec == DialInit /\ [][DialNext]_vars

-----------------------------------------------------------------------------
(* Claims, continued: listeners launched by Start, then the call pipeline *)

\* The listener kinds that are optional, each with the goroutines that may
\* serve it.
OptionalKinds == {"gateway", "metrics", "profiling"}

\* The address option of an optional listener kind is set.
Configured(k) ==
    CASE k = "gateway" -> endpointHTTP # ""
      [] k = "metrics" -> metricsEndpoint # ""
      [] k = "profiling" -> pprofEndpoint # ""

\* The goroutines that serve a listener kind.
TasksOf(k) ==
    CASE k = "gateway" -> {"http"}
      [] k = "metrics" -> {"httpMetrics", "metrics"}
      [] k = "profiling" -> {"pprof"}

\* The server handle of a listener kind.
HandleOf(k) ==
    CASE k = "gateway" -> httpServer
      [] k = "metrics" -> httpMetricsServer
      [] k = "profiling" -> pprofServer

\* The listener goroutines Start has launched so far.
Launched == {t \in Tasks : task[t] # "none"}

\* C11: once Start has returned nil, exactly one listener goroutine has been
\* launched for every configured optional listener kind, besides the primary
\* one; a kind whose address is empty is never bound, never launched and its
\* handle stays nil; with no optional address at all the primary goroutine is
\* the only one launched and no gateway connection is created.
C11_OneTaskPerConfiguredListener ==
    /\ \A k \in OptionalKinds :
         ~Configured(k) =>
            /\ \A t \in TasksOf(k) : task[t] = "none" /\ listener[t] = "none"
            /\ HandleOf(k) = "nil"
    /\ ~Configured("gateway") => grpcGatewayConn = "nil"
    /\ startErr = "nil" =>
         /\ task["grpc"] # "none"
         /\ \A k \in OptionalKinds :
              Configured(k) => Cardinality(TasksOf(k) \cap Launched) = 1
         /\ (\A k \in OptionalKinds : ~Configured(k)) => Launched = {"grpc"}

\* Position of the first occurrence of e in the events of the call, 0 if none.
Pos(e) ==
    IF \E i \in DOMAIN events : events[i] = e
      THEN CHOOSE i \in DOMAIN events :
             events[i] = e /\ \A j \in 1..(i - 1) : events[j] # e
      ELSE 0

\* C12: when the user handler of a unary call runs, correlation extraction, the
\* enrichment hook, the profiling label, the data-capture stage and (with
\* recovery enabled) the recovery stage have been entered, in this order; and
\* the recovery stage is the innermost wrapper: the user handler is what runs
\* right after it, whatever interceptors the initializers contribute.
C12_FixedOrderRecoveryInnermost ==
    (call.kind = "unary" /\ Pos("handler") > 0) =>
        /\ 0 < Pos("traceIDFromContext")
        /\ Pos("traceIDFromContext") < Pos("hook")
        /\ Pos("hook") < Pos("pprofUnaryInterceptor")
        /\ Pos("pprofUnaryInterceptor") < Pos("tracingDataServerInterceptor")
        /\ Pos("tracingDataServerInterceptor") < Pos("handler")
        /\ recoverEnabled =>
             /\ Pos("tracingDataServerInterceptor") < Pos("recoverUnaryGRPC")
             /\ Pos("recoverUnaryGRPC") = Pos("handler") - 1

\* The canonical form of each byte value: two lower-case hex digits.
CanonicalByte(b) ==
    CASE b = 0 -> "00"
      [] b = 10 -> "0a"
      [] b = 255 -> "ff"

\* The canonical hex string of a trace id.
RECURSIVE CanonicalFrom(_, _)
CanonicalFrom(id, i) ==
    IF i > TraceIDLen THEN "" ELSE CanonicalByte(id[i]) \o CanonicalFrom(id, i + 1)

\* The call carries a span with a non-zero trace id.
InTrace == \E i \in 1..TraceIDLen : call.traceID[i] # 0

\* The call is a preflight request to the gateway that the CORS handler answers
\* itself: the handlers it wraps are not called.
AnsweredByCORS == call.kind = "http" /\ call.preflight /\ corsOptions = "cors"

\* The call is over and its caller has been given an answer.
Answered == phase = "done" /\ result.outcome \in {"response", "error", "http"}

\* C13: for every call, if its context carries no non-zero trace id,
\* correlation extraction returns absent and the response never gets an
\* x-trace-id; if it carries one, the x-trace-id of the response (gRPC trailer,
\* HTTP header) is the canonical hex string of that trace id.
C13_TraceIDOnEveryResponse ==
    /\ traceIDFromContext(call.traceID).ok = InTrace
    /\ ~InTrace =>
         /\ traceIDFromContext(call.traceID).traceID = ""
         /\ xTraceID = "unset"
    /\ (InTrace /\ Answered) => xTraceID = CanonicalFrom(call.traceID, 1)

\* C13, amended: for a call whose context carries no non-zero trace id,
\* correlation extraction returns absent and the response never gets an
\* x-trace-id; for a call that carries one, once the correlation stage has run
\* the response's x-trace-id (gRPC trailer, HTTP header) is the canonical hex
\* string of that trace id, and stays so until the call is over; the
\* correlation stage runs for every call but a preflight request that the CORS
\* handler answers, whose response has no x-trace-id.
C13_TraceIDOnResponse ==
    /\ traceIDFromContext(call.traceID).ok = InTrace
    /\ ~InTrace =>
         /\ traceIDFromContext(call.traceID).traceID = ""
         /\ xTraceID = "unset"
    /\ (InTrace /\ Pos("traceIDFromContext") > 0) =>
         xTraceID = CanonicalFrom(call.traceID, 1)
    /\ (InTrace /\ Answered) =>
         xTraceID = IF AnsweredByCORS THEN "unset" ELSE CanonicalFrom(call.traceID, 1)

\* A gateway request made within trace 0aff, no preflight, was answered with
\* that x-trace-id by a service that has CORS options.
C13_Witness ==
    /\ phase = "done"
    /\ call.kind = "http"
    /\ corsOptions = "cors" /\ ~call.preflight
    /\ result.outcome = "http"
    /\ call.traceID = <<10, 255>>
    /\ xTraceID = "0aff"

\* C14: for a streamed call within a trace, the x-trace-id trailer is set on
\* the stream before the enrichment hook is called and before the user handler
\* runs, hence before the handler sends its first message; for a streamed call
\* without a trace no x-trace-id trailer is ever set.
C14_StreamTrailerBeforeHandler ==
    call.kind = "stream" =>
        /\ (InTrace /\ Pos("hook") > 0) =>
             /\ Pos("SetTrailer") > 0
             /\ Pos("SetTrailer") < Pos("hook")
        /\ (InTrace /\ Pos("handler") > 0) =>
             /\ Pos("SetTrailer") > 0
             /\ Pos("SetTrailer") < Pos("handler")
        /\ (InTrace /\ Pos("SendMsg") > 0) =>
             /\ Pos("SetTrailer") < Pos("SendMsg")
             /\ xTraceID # "unset"
        /\ ~InTrace => Pos("SetTrailer") = 0 /\ xTraceID = "unset"

\* The handler of a streamed call within a trace has sent a message.
C14_Witness ==
    /\ call.kind = "stream"
    /\ InTrace
    /\ Pos("SendMsg") > 0
    /\ xTraceID = CanonicalFrom(call.traceID, 1)

\* C15: the stream handed to the user handler of a streamed call returns from
\* Context() the context produced by the enrichment hook, extended by the
\* profiling label and by nothing else; every other operation called on it
\* (SendMsg, RecvMsg, SetHeader, SendHeader, SetTrailer) is served by the
\* transport's stream, none of the wrapping layers standing in for it.
C15_StreamContextSubstituted ==
    (call.kind = "stream" /\ Pos("handler") > 0) =>
        /\ seen.ctx = <<"hook", "pprof.Labels">>
        /\ seen.ops["Context"] = "streamWrapper"
        /\ \A op \in StreamOps \ {"Context"} : seen.ops[op] = "transport"

\* The handler of a streamed call ran behind the recovery stage and was handed
\* the twice-wrapped stream.
C15_Witness ==
    /\ call.kind = "stream"
    /\ recoverEnabled
    /\ Pos("handler") > 0
    /\ Len(stream) = 2
    /\ seen.ctx = Context(stream)
    /\ seen.ops["SendMsg"] = "transport"

\* The message a recovered panic is turned into, for each kind of panic value.
RecoveredMessage ==
    [error |-> "recover: boom", string |-> "recover: oops", int |-> "recover: 42"]

\* The user handler of a gRPC call (unary or streamed) panics.
GrpcHandlerPanics ==
    call.kind \in {"unary", "stream"} /\ call.panicAt = "handler"

\* A recovery stage is on the stack of the call.
InsideRecovery == \E i \in 1..depth : Chain[i] \in RecoverStages

\* C16: when the handler of a unary or streamed gRPC call panics, with recovery
\* enabled the panic never leaves the recovery stage and the call returns an
\* error of code Internal whose message is "recover: " followed by the panic's
\* description (the error's text, the string, the %#v form of another value);
\* with recovery disabled nothing converts the panic, which leaves the pipeline.
C16_HandlerPanicBecomesInternal ==
    GrpcHandlerPanics =>
        /\ (recoverEnabled /\ phase = "panic") => InsideRecovery
        /\ (recoverEnabled /\ phase = "done") =>
             /\ result = [outcome |-> "error", code |-> "Internal",
                          message |-> RecoveredMessage[call.panic.type]]
             /\ ~crashed
        /\ (~recoverEnabled /\ phase = "done") =>
             /\ result.outcome = "panic"
             /\ result.code # "Internal"

\* A streamed call whose handler panicked with a value that is neither an error
\* nor a string was answered with the Internal error.
C16_Witness ==
    /\ call.kind = "stream"
    /\ call.panicAt = "handler"
    /\ call.panic.type = "int"
    /\ phase = "done"
    /\ result.code = "Internal"
    /\ result.message = "recover: 42"

\* C17: with recovery enabled, a panic raised while a gateway request is
\* handled (no panic is raised for a preflight request that the CORS handler
\* answers: its handler is not called) never leaves recoverHTTP, and the request is answered with status
\* 500 and a body that is the text of the error the gRPC path returns for the
\* same panic (a status error of code Internal and message "recover: " plus the
\* description, in its Error() form), ended by the newline http.Error adds.
C17_GatewayPanicBecomes500 ==
    (call.kind = "http" /\ call.panicAt = "handler" /\ recoverEnabled /\ ~AnsweredByCORS) =>
        /\ phase = "panic" => InsideRecovery
        /\ phase = "done" =>
             /\ result = [outcome |-> "http", code |-> "500",
                          message |-> "rpc error: code = Internal desc = "
                                      \o RecoveredMessage[call.panic.type] \o "\n"]
             /\ ~crashed

\* A gateway request whose handling panicked with an error was answered 500.
C17_Witness ==
    /\ call.kind = "http"
    /\ call.panicAt = "handler"
    /\ call.panic.type = "error"
    /\ phase = "done"
    /\ result.code = "500"
    /\ result.message = "rpc error: code = Internal desc = recover: boom\n"

\* The panic of the call's handler is in the service's error log, with the
\* stack and with the call's trace id when it has one.
PanicLogged ==
    \E i \in DOMAIN errorLog :
        /\ errorLog[i].panic = call.panic
        /\ errorLog[i].stack
        /\ errorLog[i].traceID =
             IF InTrace THEN CanonicalFrom(call.traceID, 1) ELSE "absent"

\* C18: every panic of a handler has been logged by the service, with its stack
\* trace and with the correlation id when present, by the time the call ends,
\* whether or not recovery is enabled.  (The handler of a preflight request
\* that the CORS handler answers is not called, so it raises no panic.)
C18_HandlerPanicAlwaysLogged ==
    (call.panicAt = "handler" /\ ~AnsweredByCORS /\ phase = "done") => PanicLogged

\* C19: with recovery enabled, wherever the processing of a call panics (user
\* handler, enrichment hook, contributed interceptor), on either transport,
\* the caller gets a structured error or response: the panic never leaves the
\* pipeline and never ends the process.
C19_NoUncontainedPanicWithRecovery ==
    (recoverEnabled /\ call.panicAt # "none" /\ ~AnsweredByCORS /\ phase = "done") =>
        /\ result.outcome \in {"response", "error", "http"}
        /\ ~crashed

\* The inbound metadata of the call asks for debug capture: x-trace-debug is
\* there and its first value is "1".
DebugRequested ==
    /\ call.md.present
    /\ call.md.values # <<>>
    /\ Head(call.md.values) = "1"

\* C20: the data-capture stage starts a span only for a call whose metadata
\* carries x-trace-debug with "1" as first value, and does so for every such
\* call; for any other call (no metadata, key absent, first value different) no
\* span exists at any time and the handler is given the context the stage
\* received.  The flag belongs to the call: between calls there is no span,
\* whatever the calls before asked for.
C20_CaptureOnlyOnDebugFlag ==
    /\ span # "none" => (call.kind = "unary" /\ DebugRequested)
    /\ ~DebugRequested => Pos("span.Start") = 0
    /\ (DebugRequested /\ Pos("tracingDataServerInterceptor") > 0) =>
         /\ Pos("span.Start") = Pos("tracingDataServerInterceptor") + 1
         /\ span # "none"
    /\ (call.kind = "unary" /\ ~DebugRequested /\ Pos("handler") > 0) =>
         seen.ctx = <<"hook", "pprof.Labels">>
    /\ phase = "idle" => span = "none"

\* The handler of a call whose x-trace-debug holds "0" ahead of "1" ran, and no
\* span was started.
C20_Witness ==
    /\ call.kind = "unary"
    /\ call.md.values = <<"0", "1">>
    /\ Pos("handler") > 0
    /\ span = "none"

-----------------------------------------------------------------------------
(* Claims, continued: the data-capture stage *)

\* The number of times the given event happened for the call.
Count(e) == Cardinality({i \in DOMAIN events : events[i] = e})

\* The place of the data-capture stage in the unary chain.
TracingDepth ==
    CHOOSE i \in DOMAIN unaryInterceptors :
        unaryInterceptors[i] = "tracingDataServerInterceptor"

\* C21: a span that the data-capture stage opened is ended exactly once, and
\* that before the stage gives control back to its caller, whether the stage
\* returns or a panic unwinds through it: the span is open only while the stage
\* is on the stack, and once the stage has left the stack the span was ended
\* once.
C21_SpanEndedOnceOnEveryExit ==
    call.kind = "unary" =>
        /\ Count("span.End") <= Count("span.Start")
        /\ Count("span.Start") <= 1
        /\ span = "open" => (Count("span.End") = 0 /\ depth >= TracingDepth)
        /\ (Count("span.Start") = 1 /\ depth < TracingDepth) =>
               (Count("span.End") = 1 /\ span = "ended")

\* A panic of the handler has unwound through the data-capture stage, which no
\* recovery stage follows, and the span was ended.
C21_Witness ==
    /\ call.panicAt = "handler" /\ ~recoverEnabled
    /\ phase = "panic" /\ depth < TracingDepth
    /\ Count("span.Start") = 1 /\ Count("span.End") = 1
    /\ span = "ended"

\* C22: a grpc_request or grpc_response attribute that is set is at most
\* MaxSpanBytes bytes long, as it is attached.
C22_AttachedBodyWithinBound ==
    /\ attrs.grpc_request # <<>> => TextLen(attrs.grpc_request[1]) <= MaxSpanBytes
    /\ attrs.grpc_response # <<>> => TextLen(attrs.grpc_response[1]) <= MaxSpanBytes

\* The bytes protojson.Marshal writes for the call's response.
ResponseBytes == protojsonMarshal(call.resp, call.space).bytes

\* The handler returned a response that serializes into more than MaxSpanBytes
\* bytes, capture was requested, and the data-capture stage has returned.
OversizedCaptured ==
    /\ call.kind = "unary" /\ NeedDebug(call.md)
    /\ call.panicAt = "none" /\ ~call.handlerErr
    /\ call.resp.type = "proto" /\ call.resp.marshals
    /\ TextLen(ResponseBytes) > MaxSpanBytes
    /\ phase \in {"up", "done"} /\ depth < TracingDepth

\* C23: a response longer than MaxSpanBytes is attached as its first
\* MaxSpanBytes bytes, which the sanitizer was handed and, the cut text being
\* no JSON text, returned as they are; nothing panics and the call returns the
\* handler's response.
C23_OversizedResponseCutThenSanitized ==
    OversizedCaptured =>
        /\ attrs.grpc_response = <<sanitizeBytes(Truncate(ResponseBytes, MaxSpanBytes))>>
        /\ attrs.grpc_response[1].root = ResponseBytes.root
        /\ attrs.grpc_response[1].space = ResponseBytes.space
        /\ TextLen(attrs.grpc_response[1]) = MaxSpanBytes
        /\ panicking = NoPanic
        /\ result = [outcome |-> "response", code |-> "OK", message |-> ""]
        /\ reply = call.resp

\* A response of 70000 bytes was captured and the call is over.
C23_Witness ==
    /\ OversizedCaptured
    /\ TextLen(ResponseBytes) = MaxSpanBytes + 6000
    /\ phase = "done"
    /\ TextLen(attrs.grpc_response[1]) = MaxSpanBytes

\* What the handler of the call returns.
HandlerResult ==
    IF call.handlerErr
      THEN [result |-> [outcome |-> "error", code |-> "NotFound", message |-> "not found"],
            reply |-> NilMessage]
      ELSE [result |-> [outcome |-> "response", code |-> "OK", message |-> ""],
            reply |-> call.resp]

\* C24: the correlation and enrichment stage, the profiling-label stage and the
\* data-capture stage of a unary call each run once, the handler is called
\* once, and what goes back through them, and to the caller, is the response
\* and error the handler returned, whatever the capture did.
C24_StagesTransparentToResult ==
    (call.kind = "unary" /\ call.panicAt = "none" /\ phase \in {"up", "done"}) =>
        /\ Count("handler") = 1
        /\ Count("callServerInterceptor") = 1
        /\ Count("pprofUnaryInterceptor") = 1
        /\ Count("tracingDataServerInterceptor") = 1
        /\ result = HandlerResult.result
        /\ reply = HandlerResult.reply

\* The caller got the handler's response although capture was requested and the
\* response is no proto message.
C24_Witness ==
    /\ call.kind = "unary" /\ NeedDebug(call.md)
    /\ call.panicAt = "none" /\ ~call.handlerErr
    /\ call.resp.type = "other"
    /\ phase = "done"
    /\ span = "ended" /\ attrs.grpc_response = <<>>
    /\ reply = call.resp

-----------------------------------------------------------------------------
(* Claims, continued: the sanitizer *)

\* The key is on the denylist, whatever the case of its letters.
Denylisted(k) == \E i \in DOMAIN sanitizeKeys : ToLower(k) = ToLower(sanitizeKeys[i])

\* The bytes are a JSON text that is an object or a sequence.
Structured(data) == WellFormed(data) /\ data.root.t \in {"object", "array"}

\* What the bytes decode to as a generic tree.
TreeOf(data) == Decode(data.root)

\* Somewhere in the tree a string stored under a denylisted key is not the
\* literal "sanitized".
RECURSIVE Leaks(_)
Leaks(x) ==
    CASE x.t = "map" ->
           \E k \in DOMAIN x.v :
               \/ x.v[k].t = "string" /\ Denylisted(k) /\ x.v[k] # Str("sanitized", 0)
               \/ Leaks(x.v[k])
      [] x.t = "array" -> \E i \in DOMAIN x.v : Leaks(x.v[i])
      [] OTHER -> FALSE

\* C25: whatever structured payload is sanitized, object or sequence, what
\* comes back is a JSON text in which every string stored under a denylisted
\* key, at any depth of objects and sequences, reads "sanitized"; under the
\* default denylist {"name":"Bob","password":"secret"} comes back as
\* {"name":"Bob","password":"sanitized"}.
C25_EveryDenylistedStringReplaced ==
    /\ (Len(passes) >= 1 /\ Structured(payload)) =>
           (WellFormed(passes[1]) /\ ~Leaks(TreeOf(passes[1])))
    /\ sanitizeKeys = DefaultSanitizeKeys =>
           sanitizeBytes(Text(Body(0), FALSE)) =
               Text(Object(<<[key |-> "name", val |-> Str("Bob", 0)],
                             [key |-> "password", val |-> Str("sanitized", 0)]>>), FALSE)

\* C26: sanitizing what the sanitizer returned returns it again, byte for byte.
C26_SanitizeIdempotent ==
    Len(passes) >= 2 => passes[2] = passes[1]

\* The first pass replaced a value, and a second pass was made.
C26_Witness ==
    /\ Len(passes) >= 2
    /\ Structured(payload) /\ ~Unmarshal(payload).err
    /\ Leaks(TreeOf(payload))
    /\ TreeOf(passes[1]) # TreeOf(payload)
    /\ passes[2] = passes[1]

\* Somewhere in the JSON value, as it is written, a key is on the denylist.
RECURSIVE HasDenylistedKey(_)
HasDenylistedKey(x) ==
    CASE x.t = "object" ->
           \E i \in DOMAIN x.v : Denylisted(x.v[i].key) \/ HasDenylistedKey(x.v[i].val)
      [] x.t = "array" -> \E i \in DOMAIN x.v : HasDenylistedKey(x.v[i])
      [] OTHER -> FALSE

\* C27: a payload none of whose keys is on the denylist comes back as the same
\* value: bytes that do not decode are returned as they are, the others as a
\* JSON text (its keys sorted, its spaces dropped) that decodes to the tree the
\* payload decodes to.
C27_NoMatchLeavesValueUnchanged ==
    (Len(passes) >= 1 /\ ~HasDenylistedKey(payload.root)) =>
        IF Unmarshal(payload).err
          THEN passes[1] = payload
          ELSE WellFormed(passes[1]) /\ TreeOf(passes[1]) = TreeOf(payload)

\* A payload with a string, with no denylisted key, and written otherwise than
\* json.Marshal writes it, was sanitized.
C27_Witness ==
    /\ Len(passes) >= 1
    /\ ~HasDenylistedKey(payload.root) /\ ~Unmarshal(payload).err
    /\ payload.root.t = "object"
    /\ \E i \in DOMAIN payload.root.v : payload.root.v[i].val = Str("secret", 0)
    /\ passes[1] # payload
    /\ TreeOf(passes[1]) = TreeOf(payload)

\* Two trees of the same shape: the same keys in every object, the same length
\* in every sequence, the same scalars, except that a string under a
\* denylisted key may have become another string.
RECURSIVE SameShape(_, _)
SameShape(x, y) ==
    CASE x.t = "map" ->
           /\ y.t = "map"
           /\ DOMAIN y.v = DOMAIN x.v
           /\ \A k \in DOMAIN x.v :
                  IF x.v[k].t = "string" /\ Denylisted(k)
                    THEN y.v[k].t = "string"
                    ELSE SameShape(x.v[k], y.v[k])
      [] x.t = "array" ->
           /\ y.t = "array"
           /\ Len(y.v) = Len(x.v)
           /\ \A i \in DOMAIN x.v : SameShape(x.v[i], y.v[i])
      [] OTHER -> y = x

\* Every object that is an element of a sequence stored in the map has its
\* denylisted strings replaced.
ElementsSanitized(m) ==
    \A k \in DOMAIN m.v :
        m.v[k].t = "array" =>
            \A i \in DOMAIN m.v[k].v :
                LET e == m.v[k].v[i] IN
                e.t = "map" =>
                    \A kk \in DOMAIN e.v :
                        (e.v[kk].t = "string" /\ Denylisted(kk)) =>
                            e.v[kk] = Str("sanitized", 0)

\* C28: the map that was sanitized has the keys, the sequence lengths and
\* orders, and the values it had, strings under denylisted keys excepted: an
\* object or a sequence under a denylisted key is still one; and the objects
\* that are elements of a sequence were sanitized one by one.
C28_ShapePreserved ==
    (Len(passes) >= 1 /\ ~Unmarshal(payload).err /\ Unmarshal(payload).m # NilMap) =>
        /\ ~Unmarshal(passes[1]).err
        /\ SameShape(Unmarshal(payload).m, Unmarshal(passes[1]).m)
        /\ ElementsSanitized(Unmarshal(passes[1]).m)

\* An object stored under a denylisted key was kept, and the denylisted string
\* in it replaced.
C28_Witness ==
    /\ Len(passes) >= 1
    /\ sanitizeKeys = DefaultSanitizeKeys
    /\ payload = Text(Object(<<[key |-> "password",
                                val |-> Object(<<[key |-> "Password",
                                                  val |-> Str("secret", 0)],
                                                 [key |-> "name", val |-> Num(7)]>>)]>>),
                      TRUE)
    /\ passes[1] = Text(Object(<<[key |-> "password",
                                  val |-> Object(<<[key |-> "Password",
                                                    val |-> Str("sanitized", 0)],
                                                   [key |-> "name", val |-> Num(7)]>>)]>>),
                        FALSE)

\* C29: whatever the bytes, the sanitizer has a result for them, which is the
\* bytes themselves or a JSON text; and bytes that do not decode into a map are
\* returned as they are.
C29_TotalAndFailOpen ==
    /\ LET out == sanitizeBytes(payload) IN out = payload \/ WellFormed(out)
    /\ \A i \in DOMAIN passes : passes[i] = payload \/ WellFormed(passes[i])
    /\ (Len(passes) >= 1 /\ Unmarshal(payload).err) => passes[1] = payload

\* A text cut short was handed to the sanitizer and came back as it was.
C29_Witness ==
    /\ Len(passes) >= 1
    /\ ~WellFormed(payload) /\ TextLen(payload) > 1
    /\ Unmarshal(payload).err
    /\ passes[1] = payload

-----------------------------------------------------------------------------
(* Claims, continued: the denylist *)

\* C30: from construction on, through Start and Stop, the denylist is
\* password, token, refreshToken, accessToken when New was given no keys, and
\* otherwise the keys it was given and no other.
C30_DenylistSetOnceAtConstruction ==
    IF withSanitizeKeys = <<>>
      THEN sanitizeKeys = <<"password", "token", "refreshToken", "accessToken">>
      ELSE sanitizeKeys = withSanitizeKeys

\* A service built with keys of its own was started and stopped, and its
\* denylist is those keys.
C30_Witness ==
    /\ StopReturned
    /\ withSanitizeKeys = <<"Name">>
    /\ sanitizeKeys = <<"Name">>

-----------------------------------------------------------------------------
(* Claims, continued: the optional stages and the hooks *)

\* Profiling is enabled in the configuration: by the flag of the gateway's
\* handlers or by an endpoint of the dedicated server.
ProfilingEnabled == pprofEnabled \/ pprofEndpoint # ""

\* The stages that label the call for the profiler.
LabelStages == {"pprofUnaryInterceptor", "pprofStreamInterceptor"}

\* C31: a call runs through the profiling-label stage only if profiling is
\* enabled in the configuration; with profiling not enabled no call is wrapped
\* by that stage.
C31_LabelStageOnlyIfProfilingEnabled ==
    (\E i \in DOMAIN events : events[i] \in LabelStages) => ProfilingEnabled

\* The context modifier of each transport.
HookOf(kind) ==
    CASE kind = "unary" -> "ctxUnaryModifier"
      [] kind = "stream" -> "ctxStreamModifier"
      [] kind = "http" -> "ctxHTTPModifier"

\* The remote host of a call: the host its peer's address was joined from,
\* empty without a peer and for an address that is no host:port pair.
RemoteHost(p) ==
    IF p.present /\ \E h \in Hosts, q \in Ports : p.addr = JoinHostPort(h, q)
      THEN CHOOSE h \in Hosts : \E q \in Ports : p.addr = JoinHostPort(h, q)
      ELSE <<>>

\* The correlation id of the call, empty outside a trace.
CorrelationID == IF InTrace THEN CanonicalFrom(call.traceID, 1) ELSE ""

\* The place of the correlation stage in the chain of the call: the outermost
\* stage, but for the gateway of a service with CORS options, whose outermost
\* stage is the CORS handler.
CorrelationDepth == IF call.kind = "http" /\ corsOptions # "none" THEN 2 ELSE 1

\* The call has got as far as its correlation stage, or is over.
Enriched == phase # "idle" /\ (Len(events) >= CorrelationDepth \/ phase = "done")

\* The hook of the call's transport has been invoked once, and no other.
HookInvokedOnce ==
    Enriched => Len(hooked) = 1 /\ hooked[1].hook = HookOf(call.kind)

\* The hook runs after the correlation id was extracted and before the handler.
HookInOrder ==
    Enriched =>
      /\ Count("hook") = 1
      /\ Count("traceIDFromContext") = 1
      /\ Pos("traceIDFromContext") < Pos("hook")
      /\ Count("handler") > 0 => Pos("hook") < Pos("handler")

\* The hook is given the remote host and the correlation id.
HookGivenHostAndCorrelationID ==
    Enriched =>
      /\ hooked[1].remoteAddr = <<RemoteHost(call.peer)>>
      /\ hooked[1].traceID = CorrelationID

\* The context the hook returned is the one the handler works with: what later
\* stages add comes after it.  The hook New put in place returns the context
\* it was given.
ContextReplaced ==
    Count("handler") > 0 =>
      /\ Len(seen.ctx) >= Len(hooked[1].returns)
      /\ SubSeq(seen.ctx, 1, Len(hooked[1].returns)) = hooked[1].returns
      /\ ctxModifiers = "identity" => hooked[1].returns = hooked[1].ctx
      /\ ctxModifiers = "set" => hooked[1].returns # hooked[1].ctx

\* C32: for every inbound call the hook of its transport is invoked exactly
\* once, after the correlation id was extracted and before the handler, with
\* the remote host of the peer (empty if unavailable) and the correlation id
\* (empty if absent); the context it returns is the one later stages and the
\* handler see; a hook left unconfigured is the identity.
C32_HookOnceWithHostAndCorrelationID ==
    /\ HookInvokedOnce
    /\ HookInOrder
    /\ HookGivenHostAndCorrelationID
    /\ ContextReplaced

\* The hook is given what its transport's stage has: the gRPC stages pass the
\* remote host and the correlation id, the gateway's stage passes the request,
\* which carries the address of the connection as it is, and the correlation
\* id.
HookGivenTransportArguments ==
    Enriched =>
      /\ hooked[1].traceID = CorrelationID
      /\ IF call.kind = "http"
           THEN /\ hooked[1].remoteAddr = <<>>
                /\ hooked[1].request = <<[RemoteAddr |-> call.peer.addr]>>
           ELSE /\ hooked[1].remoteAddr = <<RemoteHost(call.peer)>>
                /\ hooked[1].request = <<>>

\* C32, amended: for every inbound call the hook of its transport is invoked
\* exactly once, after the correlation id was extracted and before the
\* handler, with the correlation id (empty if absent) and, for unary and
\* streamed calls, the remote host of the peer (empty if unavailable), for
\* gateway calls the request itself; the context it returns is the one later
\* stages and the handler see; a hook left unconfigured is the identity.  The
\* one call no hook is invoked for is a preflight request to the gateway that
\* the CORS handler answers.
C32_HookOnceWithTransportArguments ==
    IF AnsweredByCORS
      THEN hooked = <<>> /\ Count("handler") = 0
      ELSE /\ HookInvokedOnce
           /\ HookInOrder
           /\ HookGivenTransportArguments
           /\ ContextReplaced

\* A gateway call inside a trace has reached its handler through the hook New
\* put in place.
C32_Witness ==
    /\ Count("handler") > 0
    /\ Len(hooked) = 1
    /\ call.kind = "http" /\ InTrace /\ ctxModifiers = "identity"
    /\ hooked[1].request = <<[RemoteAddr |-> <<"[", ":", ":", "1", "]", ":", "8", "0">>]>>

-----------------------------------------------------------------------------
(* Claims, continued: the gateway bridge *)

\* The gateway call is handled within an active trace.
ActiveTrace == IsValid(gw.httpCtx)

\* The forwarded call has been through the primary listener's correlation
\* stage.
Forwarded == gw.step = "done"

\* The metadata of the bridge carries the trace of the request.
TraceInjected ==
    /\ Len(gw.annotated) = 4
    /\ gw.annotated[2] = CanonicalFrom(gw.httpCtx.traceID, 1)

\* C33: for every gateway call handled within an active trace the bridge
\* injects that trace context into the metadata of the internal call, and the
\* correlation id the primary listener's pipeline extracts for the forwarded
\* call equals the x-trace-id header of the HTTP response; without an active
\* trace nothing is injected and neither side emits an x-trace-id.
C33_TraceCarriedAcrossBridge ==
    Forwarded =>
      IF ActiveTrace
        THEN /\ TraceInjected
             /\ gw.header = CanonicalFrom(gw.httpCtx.traceID, 1)
             /\ gw.trailer = gw.header
        ELSE /\ gw.annotated = <<>> /\ gw.wire = <<>>
             /\ gw.header = "unset"
             /\ gw.trailer = "unset"

-----------------------------------------------------------------------------
(* Claims, continued: the dialer *)

\* The connections Dial stored, by their position among the connections made.
Dialled == {i \in DOMAIN dialer.conns : dialer.conns[i].saveCon}

\* The close errors an error wraps, by connection.
RECURSIVE Wrapped(_)
Wrapped(err) ==
    IF err.kind = "close" THEN {err.conn}
    ELSE UNION {Wrapped(err.errs[k]) : k \in DOMAIN err.errs}

\* C34: once Stop has returned, every connection obtained through Dial has
\* been closed once, at most one per target, no connection obtained through
\* DialNoClose has been closed, and the error returned wraps exactly the
\* errors of the failing closes, nil when none failed.
C34_StopClosesEveryDialled ==
    dialer.pc = "stopped" =>
      /\ \A i \in DOMAIN dialer.conns :
           dialer.conns[i].closed = IF i \in Dialled THEN 1 ELSE 0
      /\ \A i, j \in Dialled :
           dialer.conns[i].target = dialer.conns[j].target => i = j
      /\ Wrapped(dialer.stopErr) = {i \in Dialled : dialer.conns[i].closeErr}
      /\ dialer.stopErr = Nil <=> \A i \in Dialled : ~dialer.conns[i].closeErr

\* Stop has returned after two Dials, both of whose closes fail, and one
\* DialNoClose.
C34_Witness ==
    /\ dialer.pc = "stopped"
    /\ Cardinality(Dialled) = 2
    /\ \A i \in Dialled : dialer.conns[i].closeErr /\ dialer.conns[i].closed = 1
    /\ \E i \in DOMAIN dialer.conns : i \notin Dialled
    /\ Cardinality(Wrapped(dialer.stopErr)) = 2

-----------------------------------------------------------------------------
(* Claims, continued: Stop and the listener tasks *)

\* Listener task t ends in a panic or a logged serve error in this step.
TreatedAsFault(t) ==
    /\ task[t] \in {"launched", "serving"}
    /\ \/ task'[t] = "panicked"
       \/ <<t, "server error">> \in logged' \ logged

\* C35: in every interleaving of Stop with the listener tasks, a task whose
\* server Stop has told to stop never panics and never reports a serve error,
\* also when the signal reached the server before the task began serving.
C35_ShutdownIsNoListenerFault ==
    [][\A t \in Tasks : t \in inShutdown => ~TreatedAsFault(t)]_vars

\* Start returned an error and the Stop that followed has returned.
StoppedAfterFailedStart == pc = "stopped" /\ startErr = "err"

\* No listener task launched by Start is still running.
NoTaskRunning == \A t \in Tasks : task[t] \notin {"launched", "serving"}

\* C36: if Start returned an error at any of its steps, then once the Stop
\* that followed has returned no listener task launched by that Start is
\* still running and the gateway's client connection, if that Start created
\* one, is not left open.
C36_NothingLeftAfterFailedStart ==
    StoppedAfterFailedStart => NoTaskRunning /\ grpcGatewayConn # "open"

\* C37: Stop returns nil in every execution, also when the gateway's
\* shutdown, the close of the gateway connection or the metrics shutdown
\* failed: those failures are logged and not returned.
C37_StopReturnsNil ==
    /\ stopErr # "err"
    /\ pc = "stopped" => stopErr = "nil"

\* Stop has returned nil after all three drain steps failed and were logged.
C37_Witness ==
    /\ pc = "stopped" /\ stopErr = "nil"
    /\ {<<"http", "failed to stop">>, <<"conn", "failed to close">>,
        <<"metrics", "failed to stop">>} \subseteq logged

-----------------------------------------------------------------------------
(* Claims, continued: what the captured attributes show *)

\* The first cut bytes of a text hold, whole, a string that is stored under a
\* denylisted key and is not the literal "sanitized"; x is a value of the
\* text and at the number of bytes written before it.
RECURSIVE Exposes(_, _, _, _)
Exposes(x, space, at, cut) ==
    CASE x.t = "object" ->
           \E i \in DOMAIN x.v :
               LET start == at + 1 + MembersLen(SubSeq(x.v, 1, i - 1), 1, space)
                               + (IF i > 1 THEN (IF space THEN 2 ELSE 1) ELSE 0)
                               + Len(x.v[i].key) + 3
               IN  \/ /\ x.v[i].val.t = "string"
                      /\ Denylisted(x.v[i].key)
                      /\ x.v[i].val # Str("sanitized", 0)
                      /\ start + JSONLen(x.v[i].val, space) <= cut
                   \/ Exposes(x.v[i].val, space, start, cut)
      [] x.t = "array" ->
           \E i \in DOMAIN x.v :
               Exposes(x.v[i], space,
                       at + 1 + ItemsLen(SubSeq(x.v, 1, i - 1), 1, space)
                          + (IF i > 1 THEN (IF space THEN 2 ELSE 1) ELSE 0),
                       cut)
      [] OTHER -> FALSE

\* The attributes attached to the span of the call.
Attached == {attrs.grpc_request, attrs.grpc_response}

\* C38: no attribute attached by the data-capture stage holds the original
\* string of a field whose key is on the denylist, whatever the size of the
\* request and of the response, a response cut to MaxSpanBytes bytes included.
C38_NoAttributeShowsDenylistedValue ==
    \A a \in Attached : \A i \in DOMAIN a :
        ~Exposes(a[i].root, a[i].space, 0, a[i].cut)

\* The bytes protojson.Marshal writes for the call's request.
RequestBytes == protojsonMarshal(call.req, call.space).bytes

\* The value is a proto message that protojson.Marshal serializes.
Serializes(msg) == msg.type = "proto" /\ msg.marshals

\* Capture was requested for the call, nothing panicked, and the data-capture
\* stage has returned.
DebugCallReturned ==
    /\ call.kind = "unary" /\ NeedDebug(call.md)
    /\ call.panicAt = "none"
    /\ phase \in {"up", "done"} /\ depth < TracingDepth

\* C39: with capture requested, the request is attached if and only if its
\* serialized form is shorter than MaxSpanBytes bytes, whole, and the handler
\* is called either way; the response of a handler that returned no error is
\* always attached, whole when its serialized form has at most MaxSpanBytes
\* bytes and cut to MaxSpanBytes bytes otherwise; no response is attached when
\* the handler returned an error.
C39_RequestOmittedResponseCutAtBound ==
    DebugCallReturned =>
        /\ Count("handler") = 1
        /\ attrs.grpc_request # <<>> <=>
               (Serializes(call.req) /\ TextLen(RequestBytes) < MaxSpanBytes)
        /\ attrs.grpc_request # <<>> =>
               /\ Len(attrs.grpc_request) = 1
               /\ WellFormed(attrs.grpc_request[1])
        /\ call.handlerErr => attrs.grpc_response = <<>>
        /\ (~call.handlerErr /\ Serializes(call.resp)) =>
               /\ Len(attrs.grpc_response) = 1
               /\ IF TextLen(ResponseBytes) <= MaxSpanBytes
                    THEN WellFormed(attrs.grpc_response[1])
                    ELSE /\ TextLen(attrs.grpc_response[1]) = MaxSpanBytes
                         /\ ~WellFormed(attrs.grpc_response[1])
                         /\ attrs.grpc_response[1].root = ResponseBytes.root

\* A call whose request and response are both written in exactly MaxSpanBytes
\* bytes is over: the request was left out, the response attached whole.
C39_Witness ==
    /\ DebugCallReturned /\ phase = "done"
    /\ ~call.handlerErr
    /\ Serializes(call.req) /\ TextLen(RequestBytes) = MaxSpanBytes
    /\ Serializes(call.resp) /\ TextLen(ResponseBytes) = MaxSpanBytes
    /\ attrs.grpc_request = <<>>
    /\ Len(attrs.grpc_response) = 1 /\ WellFormed(attrs.grpc_response[1])

-----------------------------------------------------------------------------
(* Claims, continued: the completion group *)

\* The listener tasks that were launched and have not exited.
Running == {t \in Tasks : task[t] \in {"launched", "serving"}}

\* C40: in every reachable state the count of the completion group is the
\* number of listener tasks that were launched and have not yet exited, a task
\* being registered when it is launched and deregistered once when it exits,
\* by a normal return or after a logged serve error; the count is never
\* negative.
C40_CountIsRunningTasks ==
    /\ wgCount = Cardinality(Running)
    /\ wgCount >= 0

\* The primary listener serves alone: the gateway's task and the task of the
\* gateway's metrics listener have returned after their shutdown.
C40_Witness ==
    /\ task["grpc"] = "serving"
    /\ task["http"] = "exited"
    /\ task["httpMetrics"] = "exited"
    /\ wgCount = 1

====
